---- MODULE Spec2Model ----
(***************************************************************************)
(* The garage-door authorization protocol of the LINE bot.                 *)
(*                                                                         *)
(* Spec      : core/line_webhook.py + core/token_manager.py with the       *)
(*             in-process stores (CACHE_ENABLED false, the default).       *)
(*             handle_postback runs on concurrent request threads and is   *)
(*             split at its accesses to the shared TOKENS dict; handle_text*)
(*             and verify_location_handler are taken at one clock value.   *)
(*             It records the last answer of a handler.                    *)
(* SpecRace  : the same program; it records which tokens were read, looked *)
(*             up and dispatched.                                          *)
(* SpecRedis : middleware/cache_manager.py under the handlers of the       *)
(*             top-level line_webhook.py with CACHE_ENABLED true; Redis    *)
(*             may become unreachable and drops keys past their lifetime.  *)
(* SpecDispatch : the in-process protocol for one user on one request      *)
(*             thread, with core/mqtt_handler.py send_garage_command and   *)
(*             the retry loop of handle_postback taken attempt by attempt. *)
(* SpecRate  : is_rate_limited called by concurrent request threads, with  *)
(*             rate_limit_lock explicit and the clock at half windows.     *)
(* SpecProof : the trigger and the location proof for one user, with       *)
(*             requests enough to use up the rate limiter's window.        *)
(* SpecSession : the in-process protocol with the history of the sessions.*)
(* SpecNotify : SpecDispatch's program with the replies of handle_postback *)
(*             and handle_system_error taken one by one.                   *)
(* SpecTokens : the in-process protocol with the history of the action     *)
(*             tokens: what generate_token returned, what the sweep took.  *)
(* SpecWebhook : the in-process protocol under webhook_handler, with       *)
(*             requests whose signature is invalid.                        *)
(* SpecBody  : the trigger and the location proof with the request body    *)
(*             as request.get_json hands it over.                          *)
(* SpecLimit : the trigger and the location proof for one user, with       *)
(*             requests enough to fill the window after a token expired.   *)
(* SpecLookup : trigger texts with a membership lookup that can fail.      *)
(* SpecBackends : the handlers of the top-level line_webhook.py run on the *)
(*             in-process stores and on Redis side by side.                *)
(* SpecPurpose : core/line_webhook.py with CACHE_ENABLED false or true,    *)
(*             proofs and postbacks carrying any key a store holds.        *)
(* SpecLoops : send_garage_command with the network loops of its clients.  *)
(* SpecCleanup : the timer thread of schedule_token_cleanup beside the     *)
(*             request thread, one dict operation a step.                  *)
(* SpecRetry : retry_api_call and handle_system_error call by call.        *)
(* SpecIp    : middleware.py rate_limit_by_ip on two request threads, one  *)
(*             dict operation a step.                                      *)
(* SpecRefused : the in-process protocol with the postbacks refused for    *)
(*             want of a session.                                          *)
(* SpecMember : the in-process protocol with remove_user.                  *)
(* SpecDebug : trigger texts and location proofs of the debug user or of   *)
(*             another user.                                               *)
(*                                                                         *)
(* A specification that follows a thread the base program has no variable  *)
(* for (the timer thread, the decorator, the MQTT clients) keeps that      *)
(* thread's state in obs.                                                  *)
(*                                                                         *)
(* Times are seconds.  Distances are metres.                               *)
(***************************************************************************)
EXTENDS Integers, Sequences, FiniteSets, TLC

\* ------------------------------------------------------------------ bounds
MaxTicks == 2
MaxEvents == 5

\* ------------------------------------------------------- program constants
VERIFY_TTL == 300
LOCATION_TTL == 300
TOKEN_TTL == 300
MAX_DIST_M == 500
ACC_THRESHOLD == 50
ACC_DEFAULT == 999
RATE_LIMIT_WINDOW == 60
RATE_LIMIT_MAX == 5
GLOBAL_RATE_LIMIT_MAX == 100
MAX_RETRIES == 3
POSTBACK_ATTEMPTS == 3
PUBLISH_QOS == 1
MQTT_TOPIC == "garage/command"
CACHE_ENABLED == FALSE
DEBUG_MODE == TRUE
DEBUG_USER_IDS == {"u2"}

Users == {"u1", "u2"}
Workers == {"w1", "w2"}
Actions == {"open", "close"}

None == -1
NoRecord == [user_id |-> "none", action |-> "none", expiry |-> 0]
NoEvent == [user_id |-> "none", data |-> 0]
NoDispatch == [call |-> 0, attempt |-> 0]


VARIABLES
    now,                      \* time.time()
    ALLOWED_USERS,            \* keys of get_allowed_users()
    VERIFY_TOKENS,            \* token -> [user_id, expiry]
    authorized_users,         \* user_id -> expiry
    TOKENS,                   \* token -> [user_id, action, expiry]
    rate_limit_store,         \* user_id -> sequence of timestamps
    global_rate_limit_store,  \* sequence of timestamps
    nVerify,                  \* verification tokens drawn so far
    nPairs,                   \* action-token pairs drawn so far
    nEvents,                  \* requests received so far
    pc,                       \* worker -> position in handle_postback
    ev,                       \* worker -> the postback event being handled
    rec,                      \* worker -> the record read from TOKENS
    redis,                    \* the Redis server: key space -> key -> record
    redisUp,                  \* redis_client is set and the server answers
    body,                     \* worker -> JSON body of the proof being handled
    mqtt,                     \* worker -> position in the retry loops of a dispatch
    obs                       \* history: what a specification records of a run

vars == <<now, ALLOWED_USERS, VERIFY_TOKENS, authorized_users, TOKENS,
          rate_limit_store, global_rate_limit_store, nVerify, nPairs, nEvents,
          pc, ev, rec, redis, redisUp, body, mqtt, obs>>

\* ------------------------------------------------------------ dict helpers
\* a pop that leaves the entry in the dict
Del_Nothing(m, k) == m

Put(m, k, v) == [x \in (DOMAIN m) \cup {k} |-> IF x = k THEN v ELSE m[x]]
Del(m, k) == [x \in (DOMAIN m) \ {k} |-> m[x]]
EmptyMap == [x \in {} |-> 0]

\* ------------------------------------------------------ core/token_manager
\* py_secrets.token_urlsafe(16), twice: two strings never drawn before.
OpenToken(n) == 2 * n - 1
CloseToken(n) == 2 * n

store_action_token(tokens, token, user_id, action) ==
    Put(tokens, token,
        [user_id |-> user_id, action |-> action, expiry |-> now + VERIFY_TTL])

\* generate_token that first drops the tokens the user already holds
generate_token_OnePairPerUser(tokens, n, user_id) ==
    LET others ==
           [k \in {x \in DOMAIN tokens : tokens[x].user_id # user_id} |-> tokens[k]]
    IN  Put(Put(others, OpenToken(n),
                [user_id |-> user_id, action |-> "open", expiry |-> now + TOKEN_TTL]),
            CloseToken(n),
            [user_id |-> user_id, action |-> "close", expiry |-> now + TOKEN_TTL])

\* generate_token that stores the "close" record under the key of "open"
generate_token_OneKey(tokens, n, user_id) ==
    Put(Put(tokens, OpenToken(n),
            [user_id |-> user_id, action |-> "open", expiry |-> now + TOKEN_TTL]),
        OpenToken(n),
        [user_id |-> user_id, action |-> "close", expiry |-> now + TOKEN_TTL])

\* lines 27-30
generate_token(tokens, n, user_id) ==
    Put(Put(tokens, OpenToken(n),
            [user_id |-> user_id, action |-> "open", expiry |-> now + TOKEN_TTL]),
        CloseToken(n),
        [user_id |-> user_id, action |-> "close", expiry |-> now + TOKEN_TTL])

\* ------------------------------------------------------- core/line_webhook
PruneWindow(s) == SelectSeq(s, LAMBDA ts : now - ts < RATE_LIMIT_WINDOW)

\* is_rate_limited, under rate_limit_lock: <<limited, user list, global list>>
is_rate_limited(user_id) ==
    LET g == PruneWindow(global_rate_limit_store)
        s == PruneWindow(rate_limit_store[user_id])
    IN  IF Len(g) >= GLOBAL_RATE_LIMIT_MAX
        THEN <<TRUE, rate_limit_store[user_id], g>>
        ELSE IF Len(s) >= RATE_LIMIT_MAX
        THEN <<TRUE, s, g>>
        ELSE <<FALSE, Append(s, now), Append(g, now)>>

store_verify_token(vt, token, user_id) ==
    Put(vt, token, [user_id |-> user_id, expiry |-> now + VERIFY_TTL])

\* VERIFY_TOKENS.get(token, (None, None)): the entry stays in the dict.
get_verify_token(token) ==
    IF token \in DOMAIN VERIFY_TOKENS
    THEN VERIFY_TOKENS[token]
    ELSE [user_id |-> "none", expiry |-> None]

\* is_user_authorized without the comparison with the clock
is_user_authorized_NoExpiry(user_id) == authorized_users[user_id] # None

is_user_authorized(user_id) ==
    /\ authorized_users[user_id] # None
    /\ now < authorized_users[user_id]

build_open_close_template(tokens, n, user_id) ==
    LET t == generate_token(tokens, n, user_id)
    IN  IF CACHE_ENABLED
        THEN store_action_token(
                 store_action_token(t, OpenToken(n), user_id, "open"),
                 CloseToken(n), user_id, "close")
        ELSE t

is_debug_user(user_id) == DEBUG_MODE /\ user_id \in DEBUG_USER_IDS

\* the geofence decision without the accuracy
LocationAccepted_NoAccuracy(user_id, dist, acc) ==
    is_debug_user(user_id) \/ dist <= MAX_DIST_M

\* the geofence decision with < in place of <=
LocationAccepted_Strict(user_id, dist, acc) ==
    is_debug_user(user_id) \/ (dist < MAX_DIST_M /\ acc < ACC_THRESHOLD)

\* the geofence decision of verify_location_handler
LocationAccepted(user_id, dist, acc) ==
    is_debug_user(user_id) \/ (dist <= MAX_DIST_M /\ acc <= ACC_THRESHOLD)

\* ---------------------------------------------------------------- inputs
Malformed == [wellFormed |-> FALSE, dist |-> 0, acc |-> ACC_DEFAULT]
Locations ==
    {Malformed} \cup
    [wellFormed : {TRUE}, dist : {MAX_DIST_M, MAX_DIST_M + 1},
     acc : {ACC_THRESHOLD, ACC_DEFAULT}]
GoodLocation(data) ==
    data.wellFormed /\ data.dist <= MAX_DIST_M /\ data.acc <= ACC_THRESHOLD

\* ------------------------------------------------------------------ Init
InitProgram ==
    /\ now = 0
    /\ ALLOWED_USERS = Users
    /\ VERIFY_TOKENS = EmptyMap
    /\ authorized_users = [u \in Users |-> None]
    /\ TOKENS = EmptyMap
    /\ rate_limit_store = [u \in Users |-> <<>>]
    /\ global_rate_limit_store = <<>>
    /\ nVerify = 0
    /\ nPairs = 0
    /\ nEvents = 0
    /\ pc = [w \in Workers |-> "idle"]
    /\ ev = [w \in Workers |-> NoEvent]
    /\ rec = [w \in Workers |-> NoRecord]
    /\ redis = [verify_token |-> EmptyMap, action_token |-> EmptyMap,
                auth_user |-> EmptyMap]
    /\ redisUp = TRUE
    /\ body = [w \in Workers |-> Malformed]
    /\ mqtt = [w \in Workers |-> NoDispatch]

\* ----------------------------------------------------------- frame groups
storeVars == <<VERIFY_TOKENS, authorized_users, TOKENS, nVerify, nPairs>>
rateVars == <<rate_limit_store, global_rate_limit_store>>
workerVars == <<pc, ev, rec>>
redisVars == <<redis, redisUp, body>>
mqttVars == <<mqtt>>

\* the web server hands a request to a handler
Receive ==
    /\ nEvents < MaxEvents
    /\ nEvents' = nEvents + 1

\* send_verification_message: py_secrets.token_urlsafe(24), store, challenge.
send_verification_message(user_id) ==
    /\ nVerify' = nVerify + 1
    /\ VERIFY_TOKENS' = store_verify_token(VERIFY_TOKENS, nVerify + 1, user_id)

\* ------------------------------------------------------------ handle_text
\* handle_text without the is_user_authorized check of line 448
TextReply_NoSessionCheck(user_id, user_msg) ==
    IF user_msg # "trigger" THEN "none"
    ELSE IF user_id \notin ALLOWED_USERS THEN "not_registered"
    ELSE "menu"

\* the message handle_text hands to reply_message
TextReply(user_id, user_msg) ==
    IF user_msg # "trigger" THEN "none"
    ELSE IF user_id \notin ALLOWED_USERS THEN "not_registered"
    ELSE IF ~is_user_authorized(user_id) THEN "challenge"
    ELSE "menu"

handle_text(user_id, user_msg) ==
    /\ Receive
    /\ LET r == TextReply(user_id, user_msg) IN
       CASE r = "challenge" ->
              /\ send_verification_message(user_id)
              /\ UNCHANGED <<authorized_users, TOKENS, nPairs>>
         [] r = "menu" ->
              /\ nPairs' = nPairs + 1
              /\ TOKENS' = build_open_close_template(TOKENS, nPairs + 1, user_id)
              /\ UNCHANGED <<VERIFY_TOKENS, authorized_users, nVerify>>
         [] OTHER -> UNCHANGED storeVars
    /\ UNCHANGED <<now, ALLOWED_USERS, rateVars, workerVars>>

\* ------------------------------------------------ verify_location_handler
\* token 0 stands for a missing token parameter or a string that is no key.
VerifyExpired(token) ==
    LET found == get_verify_token(token)
    IN  found.expiry # None /\ now > found.expiry

\* verify_location_handler without the expiry check of line 382
VerifyAnswer_NoExpiryCheck(token, data) ==
    LET user_id == get_verify_token(token).user_id IN
    IF token = 0 \/ user_id = "none" THEN <<400, FALSE>>
    ELSE IF ~data.wellFormed THEN <<400, FALSE>>
    ELSE IF is_rate_limited(user_id)[1] THEN <<429, FALSE>>
    ELSE IF LocationAccepted(user_id, data.dist, data.acc) THEN <<200, TRUE>>
    ELSE <<200, FALSE>>

\* verify_location_handler without the is_rate_limited check of line 392
VerifyAnswer_NoRateLimit(token, data) ==
    LET user_id == get_verify_token(token).user_id IN
    IF token = 0 \/ user_id = "none" THEN <<400, FALSE>>
    ELSE IF VerifyExpired(token) THEN <<400, FALSE>>
    ELSE IF ~data.wellFormed THEN <<400, FALSE>>
    ELSE IF LocationAccepted(user_id, data.dist, data.acc) THEN <<200, TRUE>>
    ELSE <<200, FALSE>>

\* a bypass that comes before the checks of the coordinates and of the rate
VerifyAnswer_BypassFirst(token, data) ==
    LET user_id == get_verify_token(token).user_id IN
    IF token = 0 \/ user_id = "none" THEN <<400, FALSE>>
    ELSE IF VerifyExpired(token) THEN <<400, FALSE>>
    ELSE IF is_debug_user(user_id) THEN <<200, TRUE>>
    ELSE IF ~data.wellFormed THEN <<400, FALSE>>
    ELSE IF is_rate_limited(user_id)[1] THEN <<429, FALSE>>
    ELSE IF LocationAccepted(user_id, data.dist, data.acc) THEN <<200, TRUE>>
    ELSE <<200, FALSE>>

\* the answer of verify_location_handler: <<status, ok>>
VerifyAnswer(token, data) ==
    LET user_id == get_verify_token(token).user_id IN
    IF token = 0 \/ user_id = "none" THEN <<400, FALSE>>
    ELSE IF VerifyExpired(token) THEN <<400, FALSE>>
    ELSE IF ~data.wellFormed THEN <<400, FALSE>>
    ELSE IF is_rate_limited(user_id)[1] THEN <<429, FALSE>>
    ELSE IF LocationAccepted(user_id, data.dist, data.acc) THEN <<200, TRUE>>
    ELSE <<200, FALSE>>

verify_location_handler(token, data) ==
    /\ Receive
    /\ LET user_id == get_verify_token(token).user_id
           a == VerifyAnswer(token, data)
       IN
       IF a[1] = 400
       THEN UNCHANGED <<storeVars, rateVars>>
       ELSE LET r == is_rate_limited(user_id) IN
            /\ rate_limit_store' = [rate_limit_store EXCEPT ![user_id] = r[2]]
            /\ global_rate_limit_store' = r[3]
            /\ IF a[2]
               THEN /\ authorized_users' =
                           [authorized_users EXCEPT ![user_id] = now + LOCATION_TTL]
                    /\ nPairs' = nPairs + 1
                    /\ TOKENS' = build_open_close_template(TOKENS, nPairs + 1, user_id)
                    /\ UNCHANGED <<VERIFY_TOKENS, nVerify>>
               ELSE UNCHANGED storeVars
    /\ UNCHANGED <<now, ALLOWED_USERS, workerVars>>

\* --------------------------------------------------------- handle_postback
\* the handler on worker w ends
Return(w) ==
    /\ pc' = [pc EXCEPT ![w] = "idle"]
    /\ ev' = [ev EXCEPT ![w] = NoEvent]
    /\ rec' = [rec EXCEPT ![w] = NoRecord]

\* handle_postback without the session check of line 462
PbStart_NoSessionCheck(w, user_id, data) ==
    /\ pc[w] = "idle"
    /\ Receive
    /\ pc' = [pc EXCEPT ![w] = "get"]
    /\ ev' = [ev EXCEPT ![w] = [user_id |-> user_id, data |-> data]]
    /\ UNCHANGED <<now, ALLOWED_USERS, storeVars, rateVars, rec>>

\* a refusal that also pops the token the postback carried
PbStart_ConsumesOnRefusal(w, user_id, data) ==
    /\ pc[w] = "idle"
    /\ Receive
    /\ IF ~is_user_authorized(user_id)
       THEN /\ send_verification_message(user_id)
            /\ TOKENS' = Del(TOKENS, data)
            /\ UNCHANGED <<pc, ev>>
       ELSE /\ pc' = [pc EXCEPT ![w] = "get"]
            /\ ev' = [ev EXCEPT ![w] = [user_id |-> user_id, data |-> data]]
            /\ UNCHANGED <<VERIFY_TOKENS, nVerify, TOKENS>>
    /\ UNCHANGED <<now, ALLOWED_USERS, authorized_users, nPairs, rateVars, rec>>

\* the session check, and the challenge when it fails
PbStart(w, user_id, data) ==
    /\ pc[w] = "idle"
    /\ Receive
    /\ IF ~is_user_authorized(user_id)
       THEN /\ send_verification_message(user_id)
            /\ UNCHANGED <<pc, ev>>
       ELSE /\ pc' = [pc EXCEPT ![w] = "get"]
            /\ ev' = [ev EXCEPT ![w] = [user_id |-> user_id, data |-> data]]
            /\ UNCHANGED <<VERIFY_TOKENS, nVerify>>
    /\ UNCHANGED <<now, ALLOWED_USERS, authorized_users, TOKENS, nPairs, rateVars, rec>>

\* record = TOKENS.get(token), and the reply when there is none
PbGet(w) ==
    /\ pc[w] = "get"
    /\ IF ev[w].data \in DOMAIN TOKENS
       THEN /\ rec' = [rec EXCEPT ![w] = TOKENS[ev[w].data]]
            /\ pc' = [pc EXCEPT ![w] = "pop"]
            /\ UNCHANGED ev
       ELSE Return(w)
    /\ UNCHANGED <<now, ALLOWED_USERS, storeVars, rateVars, nEvents>>

\* line 482 without the comparison of the sender with the record's user
PbRejects_NoUserCheck(w) == now > rec[w].expiry

\* event.source.user_id != token_user_id or time.time() > expiry
PbRejects(w) == ev[w].user_id # rec[w].user_id \/ now > rec[w].expiry

\* TOKENS.pop(token, None), the comparison of the record with the sender and the
\* clock, the retry loop around send_garage_command(action), the final reply.
\* After the pop the handler touches no shared state.  success: whether the
\* retry loop got a (True, None) from send_garage_command.
PbReply(w, success) ==
    IF PbRejects(w) THEN "stale"
    ELSE IF ~success THEN "unavailable"
    ELSE IF rec[w].action = "open" THEN "opened" ELSE "closed"

PbPop(w) ==
    /\ pc[w] = "pop"
    /\ TOKENS' = Del(TOKENS, ev[w].data)
    /\ Return(w)
    /\ UNCHANGED <<now, ALLOWED_USERS, VERIFY_TOKENS, authorized_users, nVerify,
                   nPairs, rateVars, nEvents>>

\* ------------------------------------------- cleanup_loop, clean_expired_tokens
\* clean_expired_tokens with < in place of the <= of line 53
clean_expired_tokens_Strict(tokens) ==
    [t \in {k \in DOMAIN tokens : ~(tokens[k].expiry < now)} |-> tokens[t]]

clean_expired_tokens(tokens) ==
    [t \in {k \in DOMAIN tokens : ~(tokens[k].expiry <= now)} |-> tokens[t]]

Sweep ==
    /\ TOKENS' = clean_expired_tokens(TOKENS)
    /\ TOKENS' # TOKENS
    /\ UNCHANGED <<now, ALLOWED_USERS, VERIFY_TOKENS, authorized_users, nVerify,
                   nPairs, rateVars, workerVars, nEvents>>

\* ------------------------------------------------------------ environment
\* the clock is observed at multiples of the action-token lifetime
TickStep == TOKEN_TTL
Tick ==
    /\ now + TickStep <= MaxTicks * TickStep
    /\ now' = now + TickStep
    /\ UNCHANGED <<ALLOWED_USERS, storeVars, rateVars, workerVars, nEvents>>

\* core/models.py remove_user
Removable == {"u2"}
RemoveUser(user_id) ==
    /\ user_id \in ALLOWED_USERS
    /\ ALLOWED_USERS' = ALLOWED_USERS \ {user_id}
    /\ UNCHANGED <<now, storeVars, rateVars, workerVars, nEvents>>

\* ---------------------------------------------------------------- Spec
\* obs is the answer of the handler that answered last.  op: the handler;
\* reply: the message handed to the messaging collaborator; status: the HTTP
\* status of a location proof.  expired, good: the proof's token had expired,
\* its location was inside the geofence with good accuracy.  owner: the user
\* the postback's token was minted for.  live: the postback carried a token
\* that was in TOKENS, unexpired and minted for the sender.
Answer(op, user_id, reply, status) ==
    [op |-> op, user_id |-> user_id, reply |-> reply, status |-> status,
     expired |-> FALSE, good |-> FALSE, owner |-> "none", live |-> FALSE]

LiveToken(user_id, token) ==
    /\ token \in DOMAIN TOKENS
    /\ TOKENS[token].user_id = user_id
    /\ ~(now > TOKENS[token].expiry)

DispatchReplies == {"opened", "closed", "unavailable"}

Init == InitProgram /\ obs = Answer("none", "none", "none", 0)

TextStep(u, m) ==
    /\ handle_text(u, m)
    /\ UNCHANGED <<redisVars, mqttVars>>
    /\ obs' = Answer("text", u, TextReply(u, m), 0)

ProofStep(t, d) ==
    /\ verify_location_handler(t, d)
    /\ UNCHANGED <<redisVars, mqttVars>>
    /\ obs' = [Answer("proof", get_verify_token(t).user_id,
                      IF VerifyAnswer(t, d)[2] THEN "menu" ELSE "none",
                      VerifyAnswer(t, d)[1])
                 EXCEPT !.expired = VerifyExpired(t), !.good = GoodLocation(d)]

PbStartStep(w, u, t) ==
    /\ PbStart(w, u, t)
    /\ UNCHANGED <<redisVars, mqttVars>>
    /\ obs' = IF is_user_authorized(u) THEN obs
              ELSE [Answer("postback", u, "challenge", 0)
                      EXCEPT !.live = LiveToken(u, t)]

PbGetStep(w) ==
    /\ PbGet(w)
    /\ UNCHANGED <<redisVars, mqttVars>>
    /\ obs' = IF ev[w].data \in DOMAIN TOKENS THEN obs
              ELSE Answer("postback", ev[w].user_id, "invalid", 0)

PbPopStep(w) ==
    /\ PbPop(w)
    /\ UNCHANGED <<redisVars, mqttVars>>
    /\ \E success \in BOOLEAN :
          obs' = [Answer("postback", ev[w].user_id, PbReply(w, success), 0)
                    EXCEPT !.owner = rec[w].user_id]

Next ==
    \/ \E u \in Users, m \in {"trigger", "other"} : TextStep(u, m)
    \/ \E t \in 0..nVerify, d \in Locations : ProofStep(t, d)
    \/ \E w \in Workers, u \in Users, t \in 0..(2 * nPairs) : PbStartStep(w, u, t)
    \/ \E w \in Workers : PbGetStep(w)
    \/ \E w \in Workers : PbPopStep(w)
    \/ Sweep /\ UNCHANGED <<redisVars, mqttVars, obs>>
    \/ Tick /\ UNCHANGED <<redisVars, mqttVars, obs>>
    \/ \E u \in Removable : RemoveUser(u) /\ UNCHANGED <<redisVars, mqttVars, obs>>

Spec == Init /\ [][Next]_vars

\* ------------------------------------------------------------ SpecRace
\* The same program with a history instead of the last answer.  read: the
\* action tokens some handle_postback has got from TOKENS.get.  late[w]: the
\* handler on worker w started after its token had been read by a handler or
\* had expired.  sent: how many handlers called send_garage_command for a
\* token.  lookedUp: the verification tokens verify_location_handler has passed
\* to get_verify_token.
History ==
    [read |-> {}, late |-> [w \in Workers |-> FALSE], sent |-> EmptyMap,
     lookedUp |-> {}]

InitRace == InitProgram /\ obs = History

Expired(token) == token \in DOMAIN TOKENS /\ now > TOKENS[token].expiry

TextRace(u, m) == handle_text(u, m) /\ UNCHANGED <<redisVars, mqttVars, obs>>

ProofRace(t, d) ==
    /\ verify_location_handler(t, d)
    /\ UNCHANGED <<redisVars, mqttVars>>
    /\ obs' = IF t = 0 THEN obs
              ELSE [obs EXCEPT !.lookedUp = @ \cup {t}]

PbStartRace(w, u, t) ==
    /\ PbStart(w, u, t)
    /\ UNCHANGED <<redisVars, mqttVars>>
    /\ obs' = [obs EXCEPT !.late[w] =
                 is_user_authorized(u) /\ (t \in obs.read \/ Expired(t))]

PbGetRace(w) ==
    /\ PbGet(w)
    /\ UNCHANGED <<redisVars, mqttVars>>
    /\ obs' = IF ev[w].data \in DOMAIN TOKENS
              THEN [obs EXCEPT !.read = @ \cup {ev[w].data}]
              ELSE [obs EXCEPT !.late[w] = FALSE]

PbPopRace(w) ==
    /\ PbPop(w)
    /\ UNCHANGED <<redisVars, mqttVars>>
    /\ LET t == ev[w].data
           n == IF t \in DOMAIN obs.sent THEN obs.sent[t] ELSE 0
       IN  obs' = [obs EXCEPT !.late[w] = FALSE,
                              !.sent = IF PbRejects(w) THEN @ ELSE Put(@, t, n + 1)]

NextRace ==
    \/ \E u \in Users, m \in {"trigger", "other"} : TextRace(u, m)
    \/ \E t \in 0..nVerify, d \in Locations : ProofRace(t, d)
    \/ \E w \in Workers, u \in Users, t \in 0..(2 * nPairs) : PbStartRace(w, u, t)
    \/ \E w \in Workers : PbGetRace(w)
    \/ \E w \in Workers : PbPopRace(w)
    \/ Sweep /\ UNCHANGED <<redisVars, mqttVars, obs>>
    \/ Tick /\ UNCHANGED <<redisVars, mqttVars, obs>>
    \/ \E u \in Removable : RemoveUser(u) /\ UNCHANGED <<redisVars, mqttVars, obs>>

SpecRace == InitRace /\ [][NextRace]_vars

\* ----------------------------------------------- middleware/cache_manager
\* redis_client.get(key): the stored record; NoRecord for a missing key or one
\* whose time to live is over.  The callers test redisUp first: with
\* redis_client None they skip the call, and on an unreachable server the call
\* raises RedisError, which they catch.
RedisGet(space, key) ==
    IF key \in DOMAIN redis[space] /\ now <= redis[space][key].expiry
    THEN redis[space][key]
    ELSE NoRecord

\* redis_client.setex(key, ttl, data)
RedisSetex(r, space, key, data) == [r EXCEPT ![space] = Put(@, key, data)]

\* redis_client.delete(key)
RedisDelete(r, space, key) == [r EXCEPT ![space] = Del(@, key)]

cache_store_verify_token(r, token, user_id) ==
    IF redisUp
    THEN RedisSetex(r, "verify_token", token,
             [user_id |-> user_id, action |-> "verify", expiry |-> now + VERIFY_TTL])
    ELSE r

cache_authorize_user(r, user_id) ==
    IF redisUp
    THEN RedisSetex(r, "auth_user", user_id,
             [user_id |-> user_id, action |-> "authorize",
              expiry |-> now + LOCATION_TTL])
    ELSE r

cache_is_user_authorized_FailOpen(user_id) ==
    \/ ~redisUp
    \/ /\ RedisGet("auth_user", user_id) # NoRecord
       /\ now <= RedisGet("auth_user", user_id).expiry

cache_is_user_authorized(user_id) ==
    /\ redisUp
    /\ RedisGet("auth_user", user_id) # NoRecord
    /\ now <= RedisGet("auth_user", user_id).expiry

cache_store_action_token(r, token, user_id, action) ==
    IF redisUp
    THEN RedisSetex(r, "action_token", token,
             [user_id |-> user_id, action |-> action, expiry |-> now + VERIFY_TTL])
    ELSE r

\* get_verify_token and get_action_token make two calls to the server, GET
\* and DELETE, which other requests interleave with; the handlers below are
\* split between the two.  CacheGot: what redis_client.get(key) hands back.
CacheGot(space, token) ==
    IF redisUp THEN RedisGet(space, token) ELSE NoRecord

\* redis_client.delete(key) and the expiry check: the record the lookup
\* returns, NoRecord for (None, None) and (None, None, None).
CacheFound(w) ==
    IF ~redisUp THEN NoRecord
    ELSE IF now > rec[w].expiry THEN NoRecord
    ELSE rec[w]

CacheDelete(w, space) ==
    redis' = IF redisUp THEN RedisDelete(redis, space, ev[w].data) ELSE redis

\* the Redis server drops the keys whose time to live is over
RedisExpire ==
    /\ redis' = [space \in DOMAIN redis |->
                   [k \in {x \in DOMAIN redis[space] :
                              ~(redis[space][x].expiry <= now)} |-> redis[space][k]]]
    /\ redis' # redis
    /\ UNCHANGED <<now, ALLOWED_USERS, storeVars, rateVars, workerVars, nEvents,
                   redisUp, body>>

\* the Redis server becomes unreachable, or reachable again; it keeps its keys
RedisToggle ==
    /\ redisUp' = ~redisUp
    /\ UNCHANGED <<now, ALLOWED_USERS, storeVars, rateVars, workerVars, nEvents,
                   redis, body>>

\* ------------------------------------- line_webhook.py, CACHE_ENABLED true
\* The handlers of the top-level line_webhook.py on the branches it takes
\* when CACHE_ENABLED is true.  Its generate_token(user_id) is the one of
\* core/token_manager.
ReturnLegacy(w) ==
    /\ Return(w)
    /\ body' = [body EXCEPT ![w] = Malformed]

LegacyTextReply(user_id, user_msg) ==
    IF user_msg # "trigger" THEN "none"
    ELSE IF user_id \notin ALLOWED_USERS THEN "not_registered"
    ELSE IF ~cache_is_user_authorized(user_id) THEN "challenge"
    ELSE "menu"

\* generate_token and the two store_action_token calls that follow it
LegacyMenu(r, n, user_id) ==
    cache_store_action_token(
        cache_store_action_token(r, OpenToken(n), user_id, "open"),
        CloseToken(n), user_id, "close")

legacy_handle_text(user_id, user_msg) ==
    /\ Receive
    /\ LET r == LegacyTextReply(user_id, user_msg) IN
       CASE r = "challenge" ->
              /\ nVerify' = nVerify + 1
              /\ redis' = cache_store_verify_token(redis, nVerify + 1, user_id)
              /\ UNCHANGED <<TOKENS, nPairs>>
         [] r = "menu" ->
              /\ nPairs' = nPairs + 1
              /\ TOKENS' = generate_token(TOKENS, nPairs + 1, user_id)
              /\ redis' = LegacyMenu(redis, nPairs + 1, user_id)
              /\ UNCHANGED nVerify
         [] OTHER -> UNCHANGED <<TOKENS, nPairs, nVerify, redis>>
    /\ UNCHANGED <<now, ALLOWED_USERS, VERIFY_TOKENS, authorized_users, rateVars,
                   workerVars, redisUp, body>>

\* verify_location_handler up to redis_client.get in get_verify_token
legacy_verify_get(w, token, data) ==
    /\ pc[w] = "idle"
    /\ Receive
    /\ IF CacheGot("verify_token", token) = NoRecord
       THEN UNCHANGED <<pc, ev, rec, body>>
       ELSE /\ pc' = [pc EXCEPT ![w] = "vdel"]
            /\ ev' = [ev EXCEPT ![w] = [user_id |-> "none", data |-> token]]
            /\ rec' = [rec EXCEPT ![w] = CacheGot("verify_token", token)]
            /\ body' = [body EXCEPT ![w] = data]
    /\ UNCHANGED <<now, ALLOWED_USERS, storeVars, rateVars, redis, redisUp>>

\* the answer of verify_location_handler after the lookup: <<status, ok>>
LegacyVerifyAnswer(w) ==
    IF CacheFound(w) = NoRecord THEN <<400, FALSE>>
    ELSE IF ~body[w].wellFormed THEN <<400, FALSE>>
    ELSE IF GoodLocation(body[w]) THEN <<200, TRUE>>
    ELSE <<200, FALSE>>

\* redis_client.delete in get_verify_token, then the checks of the handler
legacy_verify_delete(w) ==
    /\ pc[w] = "vdel"
    /\ CacheDelete(w, "verify_token")
    /\ IF LegacyVerifyAnswer(w)[2]
       THEN /\ pc' = [pc EXCEPT ![w] = "vstore"]
            /\ UNCHANGED <<ev, rec, body>>
       ELSE ReturnLegacy(w)
    /\ UNCHANGED <<now, ALLOWED_USERS, storeVars, rateVars, nEvents, redisUp>>

\* authorize_user, generate_token, store_action_token twice, push_message
legacy_verify_store(w) ==
    /\ pc[w] = "vstore"
    /\ nPairs' = nPairs + 1
    /\ TOKENS' = generate_token(TOKENS, nPairs + 1, rec[w].user_id)
    /\ redis' = LegacyMenu(cache_authorize_user(redis, rec[w].user_id),
                           nPairs + 1, rec[w].user_id)
    /\ ReturnLegacy(w)
    /\ UNCHANGED <<now, ALLOWED_USERS, VERIFY_TOKENS, authorized_users, nVerify,
                   rateVars, nEvents, redisUp>>

\* handle_postback: the session check, and the challenge when it fails
legacy_postback_start(w, user_id, data) ==
    /\ pc[w] = "idle"
    /\ Receive
    /\ IF ~cache_is_user_authorized(user_id)
       THEN /\ nVerify' = nVerify + 1
            /\ redis' = cache_store_verify_token(redis, nVerify + 1, user_id)
            /\ UNCHANGED <<pc, ev>>
       ELSE /\ pc' = [pc EXCEPT ![w] = "aget"]
            /\ ev' = [ev EXCEPT ![w] = [user_id |-> user_id, data |-> data]]
            /\ UNCHANGED <<nVerify, redis>>
    /\ UNCHANGED <<now, ALLOWED_USERS, VERIFY_TOKENS, authorized_users, TOKENS,
                   nPairs, rateVars, rec, redisUp, body>>

\* redis_client.get in get_action_token
legacy_postback_get(w) ==
    /\ pc[w] = "aget"
    /\ IF CacheGot("action_token", ev[w].data) = NoRecord
       THEN ReturnLegacy(w)
       ELSE /\ pc' = [pc EXCEPT ![w] = "adel"]
            /\ rec' = [rec EXCEPT ![w] = CacheGot("action_token", ev[w].data)]
            /\ UNCHANGED <<ev, body>>
    /\ UNCHANGED <<now, ALLOWED_USERS, storeVars, rateVars, nEvents, redis, redisUp>>

\* the reply of handle_postback after the lookup
LegacyPbReply(w, success) ==
    IF CacheFound(w) = NoRecord THEN "invalid"
    ELSE IF ev[w].user_id # CacheFound(w).user_id \/ now > CacheFound(w).expiry
    THEN "stale"
    ELSE IF ~success THEN "unavailable"
    ELSE IF CacheFound(w).action = "open" THEN "opened" ELSE "closed"

\* redis_client.delete in get_action_token, the checks, send_garage_command
legacy_postback_delete(w) ==
    /\ pc[w] = "adel"
    /\ CacheDelete(w, "action_token")
    /\ ReturnLegacy(w)
    /\ UNCHANGED <<now, ALLOWED_USERS, storeVars, rateVars, nEvents, redisUp>>

\* ----------------------------------------------------------- SpecRedis
\* got: how many callers a lookup handed the record of a key.  refused: a
\* lookup made while Redis was unreachable has answered not-found for a key
\* that Redis held unexpired.
RedisHistory ==
    [got |-> [verify_token |-> EmptyMap, action_token |-> EmptyMap],
     refused |-> FALSE]

InitRedis == InitProgram /\ obs = RedisHistory

Count(m, k) == IF k \in DOMAIN m THEN m[k] ELSE 0

Held(space, token) == RedisGet(space, token) # NoRecord

LegacyLocations == {d \in Locations : d.acc = ACC_THRESHOLD} \cup {Malformed}

LegacyTextStep(u, m) == legacy_handle_text(u, m) /\ UNCHANGED <<mqttVars, obs>>

LegacyVerifyGetStep(w, t, d) ==
    /\ legacy_verify_get(w, t, d)
    /\ UNCHANGED mqttVars
    /\ obs' = [obs EXCEPT !.refused =
                 @ \/ (~redisUp /\ Held("verify_token", t) /\ GoodLocation(d))]

LegacyVerifyDeleteStep(w) ==
    /\ legacy_verify_delete(w)
    /\ UNCHANGED mqttVars
    /\ obs' = [obs EXCEPT !.got.verify_token =
                 IF CacheFound(w) = NoRecord THEN @
                 ELSE Put(@, ev[w].data, Count(@, ev[w].data) + 1)]

LegacyVerifyStoreStep(w) == legacy_verify_store(w) /\ UNCHANGED <<mqttVars, obs>>

LegacyPbStartStep(w, u, t) == legacy_postback_start(w, u, t) /\ UNCHANGED <<mqttVars, obs>>

LegacyPbGetStep(w) == legacy_postback_get(w) /\ UNCHANGED <<mqttVars, obs>>

LegacyPbDeleteStep(w) ==
    /\ legacy_postback_delete(w)
    /\ UNCHANGED mqttVars
    /\ obs' = [obs EXCEPT !.got.action_token =
                 IF CacheFound(w) = NoRecord THEN @
                 ELSE Put(@, ev[w].data, Count(@, ev[w].data) + 1)]

NextRedis ==
    \/ \E u \in Users, m \in {"trigger", "other"} : LegacyTextStep(u, m)
    \/ \E w \in Workers, t \in 0..nVerify, d \in LegacyLocations :
          LegacyVerifyGetStep(w, t, d)
    \/ \E w \in Workers : LegacyVerifyDeleteStep(w)
    \/ \E w \in Workers : LegacyVerifyStoreStep(w)
    \/ \E w \in Workers, u \in Users, t \in 0..(2 * nPairs) :
          LegacyPbStartStep(w, u, t)
    \/ \E w \in Workers : LegacyPbGetStep(w)
    \/ \E w \in Workers : LegacyPbDeleteStep(w)
    \/ RedisExpire /\ UNCHANGED <<mqttVars, obs>>
    \/ RedisToggle /\ UNCHANGED <<mqttVars, obs>>
    \/ Tick /\ UNCHANGED <<redisVars, mqttVars, obs>>
    \/ \E u \in Removable : RemoveUser(u) /\ UNCHANGED <<redisVars, mqttVars, obs>>

SpecRedis == InitRedis /\ [][NextRedis]_vars

\* ------------------------------------------------------ core/mqtt_handler
\* How one attempt of send_garage_command goes: "ok", or the stage that
\* fails.  "create": create_mqtt_client raises.  "connect": connect_async
\* raises or the client is not connected after CONNECT_TIMEOUT.  "publish":
\* publish or wait_for_publish raises, or no acknowledgment within 2 s.
Outcomes == {"ok", "create", "connect", "publish"}

\* one command for both actions
Payload_AlwaysUp(action) == "up"

\* the two commands swapped
Payload_Swapped(action) == IF action = "open" THEN "down" ELSE "up"

\* mqtt_cmd
Payload(action) == IF action = "open" THEN "up" ELSE "down"

\* client.publish(MQTT_TOPIC, mqtt_cmd, qos=1)
publish(action) == [topic |-> MQTT_TOPIC, payload |-> Payload(action), qos |-> PUBLISH_QOS]

\* an except clause that catches the publish failures only
Caught_OnlyPublish(o) == o = "publish"

\* except Exception (line 117): what the stages raise are Exceptions
Caught(o) == o \in {"create", "connect", "publish"}

\* the loop giving up one attempt early
LastAttempt_OneEarly(attempt) == ~(attempt < MAX_RETRIES - 1)

\* line 121, else branch
LastAttempt(attempt) == ~(attempt < MAX_RETRIES)

\* what an attempt makes of the call: "true" for return True, None; "false"
\* for return False, detailed_error; "retry" for the next round of the loop;
\* "raise" for an exception that leaves send_garage_command
AttemptResult(attempt, o) ==
    IF o = "ok" THEN "true"
    ELSE IF ~Caught(o) THEN "raise"
    ELSE IF LastAttempt(attempt) THEN "false"
    ELSE "retry"

\* detailed_error
ErrorString(o) == <<"Failed to send MQTT command after", MAX_RETRIES, "attempts", o>>

\* handle_postback lines 479-488, entering the retry loop of line 491
PbPopSend(w) ==
    /\ pc[w] = "pop"
    /\ TOKENS' = Del(TOKENS, ev[w].data)
    /\ IF PbRejects(w)
       THEN Return(w) /\ UNCHANGED mqtt
       ELSE /\ pc' = [pc EXCEPT ![w] = "send"]
            /\ mqtt' = [mqtt EXCEPT ![w] = [call |-> 1, attempt |-> 1]]
            /\ UNCHANGED <<ev, rec>>
    /\ UNCHANGED <<now, ALLOWED_USERS, VERIFY_TOKENS, authorized_users, nVerify,
                   nPairs, rateVars, nEvents>>

\* the reply of handle_postback when the attempt ends the dispatch, "none"
\* while the loops go on
SendReply(w, o) ==
    LET r == AttemptResult(mqtt[w].attempt, o) IN
    IF r = "true" THEN (IF rec[w].action = "open" THEN "opened" ELSE "closed")
    ELSE IF r = "raise" THEN "error"
    ELSE IF r = "false" /\ ~(mqtt[w].call < POSTBACK_ATTEMPTS) THEN "unavailable"
    ELSE "none"

\* one round of the loop of send_garage_command and, when it returns, of the
\* loop of handle_postback around it
send_garage_command(w, o) ==
    /\ pc[w] = "send"
    /\ IF SendReply(w, o) # "none"
       THEN /\ Return(w)
            /\ mqtt' = [mqtt EXCEPT ![w] = NoDispatch]
       ELSE /\ mqtt' = [mqtt EXCEPT ![w] =
                          IF AttemptResult(@.attempt, o) = "retry"
                          THEN [@ EXCEPT !.attempt = @ + 1]
                          ELSE [call |-> @.call + 1, attempt |-> 1]]
            /\ UNCHANGED workerVars
    /\ UNCHANGED <<now, ALLOWED_USERS, storeVars, rateVars, nEvents>>

\* -------------------------------------------------------- SpecDispatch
\* The in-process protocol for one user on one request thread, with the
\* dispatch taken attempt by attempt.  ret: the last return of
\* send_garage_command, with the attempts that failed in that call.  run: of
\* the dispatch in progress or, when none is, of the last one: the attempts
\* made (counted up to one past MAX_RETRIES), the publishes (counted up to
\* two), the payload, topic and QoS last published, the attempts that
\* failed in the current call, whether no attempt failed, the reply of
\* handle_postback.  failed: the tokens whose dispatch ended with the failure
\* reply.
\* after: a postback that started with a token in failed is in progress
\* ("started") or was answered with the invalid-operation reply ("refused").
NoReturn == [kind |-> "none", ok |-> FALSE, err |-> <<>>, attempts |-> 0, fails |-> 0]
NoRun == [attempts |-> 0, publishes |-> 0, payload |-> "none", topic |-> "none",
          qos |-> 0, callFails |-> 0, clean |-> TRUE, reply |-> "none"]

DispatchHistory ==
    [ret |-> NoReturn, run |-> NoRun, failed |-> {}, after |-> "no"]

DispatchWorkers == {"w1"}
DispatchUsers == {"u1"}

UpTo(n, cap) == IF n < cap THEN n ELSE cap

InitDispatch == InitProgram /\ obs = DispatchHistory

TextDispatch(u, m) == handle_text(u, m) /\ UNCHANGED <<redisVars, mqttVars, obs>>

ProofDispatch(t, d) ==
    verify_location_handler(t, d) /\ UNCHANGED <<redisVars, mqttVars, obs>>

PbStartDispatch(w, u, t) ==
    /\ PbStart(w, u, t)
    /\ UNCHANGED <<redisVars, mqttVars>>
    /\ obs' = [obs EXCEPT !.after =
                 IF is_user_authorized(u) /\ t \in obs.failed THEN "started" ELSE "no"]

PbGetDispatch(w) ==
    /\ PbGet(w)
    /\ UNCHANGED <<redisVars, mqttVars>>
    /\ obs' = [obs EXCEPT !.after =
                 IF @ = "started" /\ ev[w].data \notin DOMAIN TOKENS
                 THEN "refused" ELSE @]

PbPopDispatch(w) ==
    /\ PbPopSend(w)
    /\ UNCHANGED redisVars
    /\ obs' = [obs EXCEPT !.run = NoRun, !.ret = NoReturn]

AttemptDispatch(w, o) ==
    /\ send_garage_command(w, o)
    /\ UNCHANGED redisVars
    /\ LET r == AttemptResult(mqtt[w].attempt, o)
           fails == obs.run.callFails + IF o = "ok" THEN 0 ELSE 1
       IN  obs' = [obs EXCEPT
                     !.ret = IF r = "retry" THEN @
                             ELSE [kind |-> IF r = "raise" THEN "raise" ELSE "return",
                                   ok |-> r = "true",
                                   err |-> IF r = "true" THEN <<>> ELSE ErrorString(o),
                                   attempts |-> mqtt[w].attempt,
                                   fails |-> fails],
                     !.run = [attempts |-> UpTo(@.attempts + 1, MAX_RETRIES + 1),
                              publishes |->
                                  UpTo(@.publishes
                                         + IF o \in {"ok", "publish"} THEN 1 ELSE 0, 2),
                              payload |-> IF o \in {"ok", "publish"}
                                          THEN publish(rec[w].action).payload
                                          ELSE @.payload,
                              topic |-> IF o \in {"ok", "publish"}
                                        THEN publish(rec[w].action).topic
                                        ELSE @.topic,
                              qos |-> IF o \in {"ok", "publish"}
                                      THEN publish(rec[w].action).qos ELSE @.qos,
                              callFails |-> IF r = "retry" THEN fails ELSE 0,
                              clean |-> @.clean /\ o = "ok",
                              reply |-> SendReply(w, o)],
                     !.failed = IF SendReply(w, o) = "unavailable"
                                THEN @ \cup {ev[w].data} ELSE @]

DispatchStep == \E w \in DispatchWorkers, o \in Outcomes : AttemptDispatch(w, o)

NextDispatch ==
    \/ \E u \in DispatchUsers, m \in {"trigger", "other"} : TextDispatch(u, m)
    \/ \E t \in 0..nVerify, d \in Locations : ProofDispatch(t, d)
    \/ \E w \in DispatchWorkers, u \in DispatchUsers, t \in 0..(2 * nPairs) :
          PbStartDispatch(w, u, t)
    \/ \E w \in DispatchWorkers : PbGetDispatch(w)
    \/ \E w \in DispatchWorkers : PbPopDispatch(w)
    \/ DispatchStep
    \/ Sweep /\ UNCHANGED <<redisVars, mqttVars, obs>>
    \/ Tick /\ UNCHANGED <<redisVars, mqttVars, obs>>

\* the request thread keeps running: every attempt ends, by its result or by
\* CONNECT_TIMEOUT and the timeout of wait_for_publish
SpecDispatch == InitDispatch /\ [][NextDispatch]_vars /\ WF_vars(DispatchStep)

\* ------------------------------------------------------------ SpecRate
\* is_rate_limited called by concurrent request threads, with rate_limit_lock
\* explicit.  A worker holds the lock from RlEnter, which admits the call, to
\* RlAppend; a call that is denied takes and releases it within RlEnter.
\* ev[w] keeps user_id and, as data, current_time.
MaxRateTicks == 3
MaxRateCalls == 7

\* how many users it takes to fill the global window
CrowdSize == GLOBAL_RATE_LIMIT_MAX \div RATE_LIMIT_MAX
RateKeys == Users \cup {"crowd"}

\* is_rate_limited without rate_limit_lock
LockFree_NoLock == TRUE

\* with rate_limit_lock (line 176): no other thread is inside the block
LockFree == \A w \in Workers : pc[w] # "rl_append"

\* the cleaning with <= in place of <
PruneAt_KeepsBoundary(s, current_time) ==
    SelectSeq(s, LAMBDA ts : current_time - ts <= RATE_LIMIT_WINDOW)

\* lines 180-184 and 195-199
PruneAt(s, current_time) ==
    SelectSeq(s, LAMBDA ts : current_time - ts < RATE_LIMIT_WINDOW)

\* the user check with > in place of >=
UserLimitReached_OneLate(s) == Len(s) > RATE_LIMIT_MAX

\* line 202
UserLimitReached(s) == Len(s) >= RATE_LIMIT_MAX

\* line 188
GlobalLimitReached(g) == Len(g) >= GLOBAL_RATE_LIMIT_MAX

\* lines 176-203: take the lock, read the clock, clean, check
RlEnter(w, user_id) ==
    /\ pc[w] = "idle"
    /\ LockFree
    /\ nEvents < MaxRateCalls
    /\ nEvents' = nEvents + 1
    /\ LET g == PruneAt(global_rate_limit_store, now)
           s == PruneAt(rate_limit_store[user_id], now)
       IN  /\ global_rate_limit_store' = g
           /\ IF GlobalLimitReached(g)
              THEN UNCHANGED <<rate_limit_store, pc, ev>>
              ELSE /\ rate_limit_store' = [rate_limit_store EXCEPT ![user_id] = s]
                   /\ IF UserLimitReached(s)
                      THEN UNCHANGED <<pc, ev>>
                      ELSE /\ pc' = [pc EXCEPT ![w] = "rl_append"]
                           /\ ev' = [ev EXCEPT ![w] =
                                       [user_id |-> user_id, data |-> now]]
    /\ UNCHANGED <<now, ALLOWED_USERS, storeVars, rec>>

\* lines 205-209: log the request, return False, release the lock
RlAppend(w) ==
    /\ pc[w] = "rl_append"
    /\ rate_limit_store' =
          [rate_limit_store EXCEPT ![ev[w].user_id] = Append(@, ev[w].data)]
    /\ global_rate_limit_store' = Append(global_rate_limit_store, ev[w].data)
    /\ pc' = [pc EXCEPT ![w] = "idle"]
    /\ ev' = [ev EXCEPT ![w] = NoEvent]
    /\ UNCHANGED <<now, ALLOWED_USERS, storeVars, rec, nEvents>>

\* CrowdSize further users, none with an entry inside the window, make
\* RATE_LIMIT_MAX calls each, one call after the other at one reading of the
\* clock: the calls are admitted until the global window is full.  Their
\* lists are kept as one, under the key "crowd".
CrowdBurst ==
    /\ LockFree
    /\ PruneAt(rate_limit_store["crowd"], now) = <<>>
    /\ LET g == PruneAt(global_rate_limit_store, now)
           n == IF GlobalLimitReached(g) THEN 0
                ELSE IF Len(g) + CrowdSize * RATE_LIMIT_MAX <= GLOBAL_RATE_LIMIT_MAX
                THEN CrowdSize * RATE_LIMIT_MAX
                ELSE GLOBAL_RATE_LIMIT_MAX - Len(g)
           entries == [i \in 1..n |-> now]
       IN  /\ n > 0
           /\ global_rate_limit_store' = g \o entries
           /\ rate_limit_store' = [rate_limit_store EXCEPT !["crowd"] = entries]
    /\ UNCHANGED <<now, ALLOWED_USERS, storeVars, workerVars, nEvents>>

\* the clock is observed at multiples of half the window
RateTickStep == RATE_LIMIT_WINDOW \div 2
RateTick ==
    /\ now + RateTickStep <= MaxRateTicks * RateTickStep
    /\ now' = now + RateTickStep
    /\ UNCHANGED <<ALLOWED_USERS, storeVars, rateVars, workerVars, nEvents>>

\* admitted: for each key the current_time of every call admitted so far.
\* denied: for each user the current_time of the last call denied, or None.
RateHistory ==
    [admitted |-> [k \in RateKeys |-> <<>>], denied |-> [u \in Users |-> None]]

\* the entries of list s inside the window that trails time t
InWindow(s, t) == Cardinality({i \in 1..Len(s) : t - s[i] < RATE_LIMIT_WINDOW})

\* the entries of list s in the window that starts at time a
InWindowFrom(s, a) ==
    Cardinality({i \in 1..Len(s) : a <= s[i] /\ s[i] < a + RATE_LIMIT_WINDOW})

AllAdmitted == obs.admitted["u1"] \o obs.admitted["u2"] \o obs.admitted["crowd"]

InitRate ==
    /\ now = 0
    /\ ALLOWED_USERS = Users
    /\ VERIFY_TOKENS = EmptyMap
    /\ authorized_users = [u \in Users |-> None]
    /\ TOKENS = EmptyMap
    /\ rate_limit_store = [k \in RateKeys |-> <<>>]
    /\ global_rate_limit_store = <<>>
    /\ nVerify = 0
    /\ nPairs = 0
    /\ nEvents = 0
    /\ pc = [w \in Workers |-> "idle"]
    /\ ev = [w \in Workers |-> NoEvent]
    /\ rec = [w \in Workers |-> NoRecord]
    /\ redis = [verify_token |-> EmptyMap, action_token |-> EmptyMap,
                auth_user |-> EmptyMap]
    /\ redisUp = TRUE
    /\ body = [w \in Workers |-> Malformed]
    /\ mqtt = [w \in Workers |-> NoDispatch]
    /\ obs = RateHistory

RlEnterStep(w, u) ==
    /\ RlEnter(w, u)
    /\ UNCHANGED <<redisVars, mqttVars>>
    /\ obs' = IF pc'[w] = "rl_append" THEN obs
              ELSE [obs EXCEPT !.denied[u] = now]

RlAppendStep(w) ==
    /\ RlAppend(w)
    /\ UNCHANGED <<redisVars, mqttVars>>
    /\ obs' = [obs EXCEPT !.admitted[ev[w].user_id] = Append(@, ev[w].data)]

CrowdBurstStep ==
    /\ CrowdBurst
    /\ UNCHANGED <<redisVars, mqttVars>>
    /\ obs' = [obs EXCEPT !.admitted["crowd"] = @ \o rate_limit_store'["crowd"]]

NextRate ==
    \/ \E w \in Workers, u \in Users : RlEnterStep(w, u)
    \/ \E w \in Workers : RlAppendStep(w)
    \/ CrowdBurstStep
    \/ RateTick /\ UNCHANGED <<redisVars, mqttVars, obs>>

SpecRate == InitRate /\ [][NextRate]_vars

\* ----------------------------------------------------------- SpecProof
\* The trigger and the location proof alone, for one user outside
\* DEBUG_USER_IDS, with the answers of Spec and requests enough to use up the
\* rate limiter's window.
MaxProofEvents == 7
ProofUsers == {"u1"}

\* the bodies of Locations, and accuracies just above the threshold
ProofLocations ==
    Locations \cup
    [wellFormed : {TRUE}, dist : {MAX_DIST_M, MAX_DIST_M + 1},
     acc : {ACC_THRESHOLD + 1}]

InitProof ==
    /\ now = 0
    /\ ALLOWED_USERS = Users
    /\ VERIFY_TOKENS = EmptyMap
    /\ authorized_users = [u \in Users |-> None]
    /\ TOKENS = EmptyMap
    /\ rate_limit_store = [u \in Users |-> <<>>]
    /\ global_rate_limit_store = <<>>
    /\ nVerify = 0
    /\ nPairs = 0
    /\ nEvents = MaxEvents - MaxProofEvents
    /\ pc = [w \in Workers |-> "idle"]
    /\ ev = [w \in Workers |-> NoEvent]
    /\ rec = [w \in Workers |-> NoRecord]
    /\ redis = [verify_token |-> EmptyMap, action_token |-> EmptyMap,
                auth_user |-> EmptyMap]
    /\ redisUp = TRUE
    /\ body = [w \in Workers |-> Malformed]
    /\ mqtt = [w \in Workers |-> NoDispatch]
    /\ obs = Answer("none", "none", "none", 0)

NextProof ==
    \/ \E u \in ProofUsers, m \in {"trigger", "other"} : TextStep(u, m)
    \/ \E t \in 0..nVerify, d \in ProofLocations : ProofStep(t, d)
    \/ Tick /\ UNCHANGED <<redisVars, mqttVars, obs>>

SpecProof == InitProof /\ [][NextProof]_vars

\* ---------------------------------------------------------- SpecSession
\* The in-process protocol with the history of the sessions.  lastOk[u]: the
\* clock at the last location proof of u that was answered ok=true, or None.
\* lapsed[u]: what the last trigger text or postback of u met that came
\* LOCATION_TTL or more after lastOk[u]: "challenge", "not_registered" for
\* the text's rejection, "dispatching" for a postback that passed the session
\* check, "none" before any.
SessionHistory ==
    [lastOk |-> [u \in Users |-> None], lapsed |-> [u \in Users |-> "none"]]

InitSession == InitProgram /\ obs = SessionHistory

\* the last accepted proof of u is LOCATION_TTL old or older
Lapsed(u) == obs.lastOk[u] # None /\ ~(now - obs.lastOk[u] < LOCATION_TTL)

TextSession(u, m) ==
    /\ handle_text(u, m)
    /\ UNCHANGED <<redisVars, mqttVars>>
    /\ obs' = IF Lapsed(u) /\ m = "trigger"
              THEN [obs EXCEPT !.lapsed[u] = TextReply(u, m)]
              ELSE obs

ProofSession(t, d) ==
    /\ verify_location_handler(t, d)
    /\ UNCHANGED <<redisVars, mqttVars>>
    /\ obs' = IF VerifyAnswer(t, d) = <<200, TRUE>>
              THEN [obs EXCEPT !.lastOk[get_verify_token(t).user_id] = now,
                               !.lapsed[get_verify_token(t).user_id] = "none"]
              ELSE obs

PbStartSession(w, u, t) ==
    /\ PbStart(w, u, t)
    /\ UNCHANGED <<redisVars, mqttVars>>
    /\ obs' = IF Lapsed(u)
              THEN [obs EXCEPT !.lapsed[u] =
                      IF pc'[w] = "get" THEN "dispatching" ELSE "challenge"]
              ELSE obs

NextSession ==
    \/ \E u \in Users, m \in {"trigger", "other"} : TextSession(u, m)
    \/ \E t \in 0..nVerify, d \in Locations : ProofSession(t, d)
    \/ \E w \in Workers, u \in Users, t \in 0..(2 * nPairs) : PbStartSession(w, u, t)
    \/ \E w \in Workers : PbGet(w) /\ UNCHANGED <<redisVars, mqttVars, obs>>
    \/ \E w \in Workers : PbPop(w) /\ UNCHANGED <<redisVars, mqttVars, obs>>
    \/ Sweep /\ UNCHANGED <<redisVars, mqttVars, obs>>
    \/ Tick /\ UNCHANGED <<redisVars, mqttVars, obs>>
    \/ \E u \in Removable : RemoveUser(u) /\ UNCHANGED <<redisVars, mqttVars, obs>>

SpecSession == InitSession /\ [][NextSession]_vars

\* ------------------------------------------- handle_postback, the replies
\* where handle_postback goes when retry_api_call raises after its last try
OnReplyFailure_Redispatch == "send"

\* except Exception (line 519): handle_system_error
OnReplyFailure == "system_error"

\* the retry loop of line 491 ends: the handler goes on to the confirmation
\* of lines 509-517 or to the failure reply of lines 499-507
DispatchEnds(w, o) ==
    /\ pc[w] = "send"
    /\ SendReply(w, o) # "none"
    /\ pc' = [pc EXCEPT ![w] =
                IF SendReply(w, o) = "unavailable" THEN "reply_fail"
                ELSE IF SendReply(w, o) = "error" THEN OnReplyFailure
                ELSE "reply_ok"]
    /\ mqtt' = [mqtt EXCEPT ![w] = NoDispatch]
    /\ UNCHANGED <<now, ALLOWED_USERS, storeVars, rateVars, nEvents, ev, rec>>

\* one round of the loops that does not end them
DispatchGoesOn(w, o) == SendReply(w, o) = "none" /\ send_garage_command(w, o)

\* retry_api_call(reply_message): delivered on one of its max_attempts tries,
\* or the last try raises
reply_message(w, delivered) ==
    /\ pc[w] \in {"reply_ok", "reply_fail"}
    /\ IF delivered
       THEN Return(w) /\ UNCHANGED mqtt
       ELSE /\ pc' = [pc EXCEPT ![w] = OnReplyFailure]
            /\ mqtt' = [mqtt EXCEPT ![w] =
                          IF OnReplyFailure = "send"
                          THEN [call |-> 1, attempt |-> 1] ELSE @]
            /\ UNCHANGED <<ev, rec>>
    /\ UNCHANGED <<now, ALLOWED_USERS, storeVars, rateVars, nEvents>>

\* handle_system_error: the error text by reply_message, by push_message when
\* that raises, or by neither; nothing leaves it
handle_system_error(w, how) ==
    /\ pc[w] = "system_error"
    /\ how \in {"reply", "push", "none"}
    /\ Return(w)
    /\ UNCHANGED <<now, ALLOWED_USERS, storeVars, rateVars, nEvents, mqtt>>

\* ----------------------------------------------------------- SpecNotify
\* The protocol of SpecDispatch with the replies of handle_postback as steps
\* that may fail.  unconfirmed: the tokens whose dispatch succeeded and whose
\* confirmation was not delivered.  extra: the attempts send_garage_command
\* made for such a token after that.  told: how the user was told of the
\* error the last time handle_system_error ran, "no" before.
NotifyHistory == [unconfirmed |-> {}, extra |-> 0, told |-> "no"]

InitNotify == InitProgram /\ obs = NotifyHistory

AttemptNotify(w, o) ==
    /\ DispatchGoesOn(w, o) \/ DispatchEnds(w, o)
    /\ UNCHANGED redisVars
    /\ obs' = IF ev[w].data \in obs.unconfirmed
              THEN [obs EXCEPT !.extra = UpTo(@ + 1, 1)]
              ELSE obs

ReplyNotify(w, delivered) ==
    /\ reply_message(w, delivered)
    /\ UNCHANGED redisVars
    /\ obs' = IF pc[w] = "reply_ok" /\ ~delivered
              THEN [obs EXCEPT !.unconfirmed = @ \cup {ev[w].data}]
              ELSE obs

SystemErrorNotify(w, how) ==
    /\ handle_system_error(w, how)
    /\ UNCHANGED redisVars
    /\ obs' = [obs EXCEPT !.told = how]

NextNotify ==
    \/ \E u \in DispatchUsers, m \in {"trigger", "other"} : TextDispatch(u, m)
    \/ \E t \in 0..nVerify, d \in Locations : ProofDispatch(t, d)
    \/ \E w \in DispatchWorkers, u \in DispatchUsers, t \in 0..(2 * nPairs) :
          PbStart(w, u, t) /\ UNCHANGED <<redisVars, mqttVars, obs>>
    \/ \E w \in DispatchWorkers : PbGet(w) /\ UNCHANGED <<redisVars, mqttVars, obs>>
    \/ \E w \in DispatchWorkers : PbPopSend(w) /\ UNCHANGED <<redisVars, obs>>
    \/ \E w \in DispatchWorkers, o \in Outcomes : AttemptNotify(w, o)
    \/ \E w \in DispatchWorkers, delivered \in BOOLEAN : ReplyNotify(w, delivered)
    \/ \E w \in DispatchWorkers, how \in {"reply", "push", "none"} :
          SystemErrorNotify(w, how)
    \/ Sweep /\ UNCHANGED <<redisVars, mqttVars, obs>>
    \/ Tick /\ UNCHANGED <<redisVars, mqttVars, obs>>

SpecNotify == InitNotify /\ [][NextNotify]_vars

\* ----------------------------------------------------------- SpecTokens
\* The in-process protocol with the history of the action tokens.
\* minted[t]: the user generate_token was called for when it returned t.
\* last: the pair the last call of generate_token returned.  removed, kept:
\* the keys the last run of clean_expired_tokens deleted and left; boundary:
\* that run deleted an entry whose expiry was the reading of the clock;
\* earlier: it deleted one whose expiry was before it.
TokenHistory ==
    [minted |-> EmptyMap, last |-> <<0, 0>>,
     removed |-> {}, kept |-> {}, boundary |-> FALSE, earlier |-> FALSE]

InitTokens == InitProgram /\ obs = TokenHistory

\* line 32: return token_open, token_close
generate_token_returns(n) == <<OpenToken(n), CloseToken(n)>>

Minted(user_id) ==
    LET r == generate_token_returns(nPairs + 1)
    IN  [obs EXCEPT !.minted = Put(Put(@, r[1], user_id), r[2], user_id),
                    !.last = r]

TextTokens(u, m) ==
    /\ handle_text(u, m)
    /\ UNCHANGED <<redisVars, mqttVars>>
    /\ obs' = IF TextReply(u, m) = "menu" THEN Minted(u) ELSE obs

ProofTokens(t, d) ==
    /\ verify_location_handler(t, d)
    /\ UNCHANGED <<redisVars, mqttVars>>
    /\ obs' = IF VerifyAnswer(t, d)[2]
              THEN Minted(get_verify_token(t).user_id)
              ELSE obs

SweepTokens ==
    /\ Sweep
    /\ UNCHANGED <<redisVars, mqttVars>>
    /\ obs' = [obs EXCEPT
                 !.removed = DOMAIN TOKENS \ DOMAIN TOKENS',
                 !.kept = DOMAIN TOKENS',
                 !.boundary = \E k \in DOMAIN TOKENS \ DOMAIN TOKENS' :
                                 TOKENS[k].expiry = now,
                 !.earlier = \E k \in DOMAIN TOKENS \ DOMAIN TOKENS' :
                                TOKENS[k].expiry < now]

NextTokens ==
    \/ \E u \in Users, m \in {"trigger", "other"} : TextTokens(u, m)
    \/ \E t \in 0..nVerify, d \in Locations : ProofTokens(t, d)
    \/ \E w \in Workers, u \in Users, t \in 0..(2 * nPairs) :
          PbStart(w, u, t) /\ UNCHANGED <<redisVars, mqttVars, obs>>
    \/ \E w \in Workers : PbGet(w) /\ UNCHANGED <<redisVars, mqttVars, obs>>
    \/ \E w \in Workers : PbPop(w) /\ UNCHANGED <<redisVars, mqttVars, obs>>
    \/ SweepTokens
    \/ Tick /\ UNCHANGED <<redisVars, mqttVars, obs>>
    \/ \E u \in Removable : RemoveUser(u) /\ UNCHANGED <<redisVars, mqttVars, obs>>

SpecTokens == InitTokens /\ [][NextTokens]_vars

\* ------------------------------------------------- webhook_handler
\* webhook_handler with every exception of line 360 let through
WebhookStatus_Propagates(signature, raised) ==
    IF signature = "invalid" THEN 400
    ELSE IF raised THEN 500
    ELSE 200

\* lines 354-363: abort(400) on InvalidSignatureError; any other exception
\* of handle(body, signature) is logged, and "OK", 200 is returned
WebhookStatus(signature, raised) ==
    IF signature = "invalid" THEN 400 ELSE 200

\* WebhookHandler.handle(body, signature) raises InvalidSignatureError: the
\* library compares the signature before it parses the body and calls the
\* registered handlers, so the request ends here.
InvalidSignature ==
    /\ Receive
    /\ UNCHANGED <<now, ALLOWED_USERS, storeVars, rateVars, workerVars>>

\* lines 463-464: retry_api_call re-raises when the challenge could not be
\* delivered on any attempt, outside the try block of handle_postback
ChallengeRaises(delivered) == ~delivered

\* ---------------------------------------------------------- SpecWebhook
\* The in-process protocol with the history of webhook_handler: of the last
\* request that was answered, its signature, the handler that ran, whether
\* the handler raised an exception, the status of the answer, and the number
\* of requests received when it was given.
WebhookHistory ==
    [signature |-> "none", ran |-> "none", raised |-> FALSE, status |-> 0,
     at |-> 0]

Answered(signature, ran, raised) ==
    [signature |-> signature, ran |-> ran, raised |-> raised,
     status |-> WebhookStatus(signature, raised), at |-> nEvents']

InitWebhook == InitProgram /\ obs = WebhookHistory

InvalidWebhook ==
    /\ InvalidSignature
    /\ UNCHANGED <<redisVars, mqttVars>>
    /\ obs' = Answered("invalid", "none", FALSE)

TextWebhook(u, m) ==
    /\ handle_text(u, m)
    /\ UNCHANGED <<redisVars, mqttVars>>
    /\ obs' = Answered("valid", "text", FALSE)

PbStartWebhook(w, u, t) ==
    /\ PbStart(w, u, t)
    /\ UNCHANGED <<redisVars, mqttVars>>
    /\ IF is_user_authorized(u)
       THEN obs' = obs
       ELSE \E delivered \in BOOLEAN :
               obs' = Answered("valid", "postback", ChallengeRaises(delivered))

PbGetWebhook(w) ==
    /\ PbGet(w)
    /\ UNCHANGED <<redisVars, mqttVars>>
    /\ obs' = IF ev[w].data \in DOMAIN TOKENS THEN obs
              ELSE Answered("valid", "postback", FALSE)

PbPopWebhook(w) ==
    /\ PbPop(w)
    /\ UNCHANGED <<redisVars, mqttVars>>
    /\ obs' = Answered("valid", "postback", FALSE)

NextWebhook ==
    \/ InvalidWebhook
    \/ \E u \in Users, m \in {"trigger", "other"} : TextWebhook(u, m)
    \/ \E t \in 0..nVerify, d \in Locations :
          verify_location_handler(t, d) /\ UNCHANGED <<redisVars, mqttVars, obs>>
    \/ \E w \in Workers, u \in Users, t \in 0..(2 * nPairs) : PbStartWebhook(w, u, t)
    \/ \E w \in Workers : PbGetWebhook(w)
    \/ \E w \in Workers : PbPopWebhook(w)
    \/ Sweep /\ UNCHANGED <<redisVars, mqttVars, obs>>
    \/ Tick /\ UNCHANGED <<redisVars, mqttVars, obs>>
    \/ \E u \in Removable : RemoveUser(u) /\ UNCHANGED <<redisVars, mqttVars, obs>>

SpecWebhook == InitWebhook /\ [][NextWebhook]_vars

\* ------------------------------ verify_location_handler, the request body
\* What request.get_json(silent=True) returns: "none" for no body, a body
\* that is not JSON, or an empty object or array; "array" for JSON that is
\* not an object and not empty; for an object, "missing" when lat or lng is
\* absent or null, "string" when one of them is a string, "bool" when both
\* are true or false, "number" when both are JSON numbers.
BodyKinds == {"none", "array", "missing", "string", "bool", "number"}

Bodies ==
    [kind : BodyKinds \ {"number"}, data : {Malformed}] \cup
    [kind : {"number"}, data : Locations \ {Malformed}]

\* lines 385-390: not data, or data.get("lat") / data.get("lng") not an
\* instance of (int, float).  A list or a string has no get (AttributeError);
\* bool is a subclass of int, so True and False pass isinstance.
BodyCheck(kind) ==
    CASE kind \in {"none", "missing", "string"} -> "reject"
      [] kind = "array" -> "raise"
      [] OTHER -> "pass"

\* lines 395-396: lat and lng of 0 or 1 degree are far from the car park;
\* acc is data.get("acc", 999)
Coordinates(b) ==
    IF b.kind = "bool"
    THEN [wellFormed |-> TRUE, dist |-> MAX_DIST_M + 1, acc |-> ACC_DEFAULT]
    ELSE b.data

\* lines 374-383
TokenRefused(token) ==
    \/ token = 0
    \/ get_verify_token(token).user_id = "none"
    \/ VerifyExpired(token)

\* the status of the answer; 500 is app.py's handler for an exception the
\* view function lets through (src/app.py 561-576)
RequestStatus(token, b) ==
    IF TokenRefused(token) THEN 400
    ELSE IF BodyCheck(b.kind) = "reject" THEN 400
    ELSE IF BodyCheck(b.kind) = "raise" THEN 500
    ELSE VerifyAnswer(token, Coordinates(b))[1]

verify_location_request(token, b) ==
    IF ~TokenRefused(token) /\ BodyCheck(b.kind) = "raise"
    THEN /\ Receive
         /\ UNCHANGED <<now, ALLOWED_USERS, storeVars, rateVars, workerVars>>
    ELSE verify_location_handler(
             token, IF BodyCheck(b.kind) = "pass" THEN Coordinates(b) ELSE Malformed)

\* ------------------------------------------------------------- SpecBody
\* Trigger texts and location proofs with the request body as it arrives.
\* The history is the last location proof: token is "unknown" for a missing
\* token or one that is no key, "expired" or "valid" for a key; kind is the
\* kind of the body; status is the answer; at is the number of requests
\* received when it was given.
BodyHistory == [token |-> "none", kind |-> "none", status |-> 0, at |-> 0]

InitBody == InitProgram /\ obs = BodyHistory

TokenClass(token) ==
    IF token = 0 \/ get_verify_token(token).user_id = "none" THEN "unknown"
    ELSE IF VerifyExpired(token) THEN "expired"
    ELSE "valid"

BodyStep(t, b) ==
    /\ verify_location_request(t, b)
    /\ UNCHANGED <<redisVars, mqttVars>>
    /\ obs' = [token |-> TokenClass(t), kind |-> b.kind,
               status |-> RequestStatus(t, b), at |-> nEvents']

NextBody ==
    \/ \E u \in Users, m \in {"trigger", "other"} :
          handle_text(u, m) /\ UNCHANGED <<redisVars, mqttVars, obs>>
    \/ \E t \in 0..nVerify, b \in Bodies : BodyStep(t, b)
    \/ Tick /\ UNCHANGED <<redisVars, mqttVars, obs>>

SpecBody == InitBody /\ [][NextBody]_vars

\* ------------------------------------------------------------ SpecLimit
\* One member, trigger texts and location proofs from inside and from
\* outside the geofence, enough of them to fill the user's window after a
\* verification token has expired.  The history is that of Spec.
MaxLimitEvents == 8
LimitUsers == {"u1"}
LimitLocations ==
    {Malformed} \cup
    [wellFormed : {TRUE}, dist : {MAX_DIST_M, MAX_DIST_M + 1},
     acc : {ACC_THRESHOLD}]

InitLimit ==
    /\ now = 0
    /\ ALLOWED_USERS = Users
    /\ VERIFY_TOKENS = EmptyMap
    /\ authorized_users = [u \in Users |-> None]
    /\ TOKENS = EmptyMap
    /\ rate_limit_store = [u \in Users |-> <<>>]
    /\ global_rate_limit_store = <<>>
    /\ nVerify = 0
    /\ nPairs = 0
    /\ nEvents = MaxEvents - MaxLimitEvents
    /\ pc = [w \in Workers |-> "idle"]
    /\ ev = [w \in Workers |-> NoEvent]
    /\ rec = [w \in Workers |-> NoRecord]
    /\ redis = [verify_token |-> EmptyMap, action_token |-> EmptyMap,
                auth_user |-> EmptyMap]
    /\ redisUp = TRUE
    /\ body = [w \in Workers |-> Malformed]
    /\ mqtt = [w \in Workers |-> NoDispatch]
    /\ obs = Answer("none", "none", "none", 0)

NextLimit ==
    \/ \E u \in LimitUsers, m \in {"trigger", "other"} : TextStep(u, m)
    \/ \E t \in 0..nVerify, d \in LimitLocations : ProofStep(t, d)
    \/ Tick /\ UNCHANGED <<redisVars, mqttVars, obs>>

SpecLimit == InitLimit /\ [][NextLimit]_vars

\* ------------------------------------------ core/models get_allowed_users
\* get_allowed_users that answers a failed lookup with the stored list
get_allowed_users_FailOpen(lookup_ok) == ALLOWED_USERS

\* core/models.py 12-33: the entities of kind allowed_users, or {} when the
\* Datastore client or the query raises.  lookup_ok: the query went through.
get_allowed_users(lookup_ok) == IF lookup_ok THEN ALLOWED_USERS ELSE {}

\* lines 432-442 of handle_text with the result of the lookup; a sender found
\* in it goes on to the session check, as in TextReply
LookupReply(lookup_ok, user_id, user_msg) ==
    IF user_msg # "trigger" THEN "none"
    ELSE IF user_id \notin get_allowed_users(lookup_ok) THEN "not_registered"
    ELSE TextReply(user_id, user_msg)

handle_text_lookup(lookup_ok, user_id, user_msg) ==
    IF LookupReply(lookup_ok, user_id, user_msg) = "not_registered"
    THEN /\ Receive
         /\ UNCHANGED <<now, ALLOWED_USERS, storeVars, rateVars, workerVars>>
    ELSE handle_text(user_id, user_msg)

\* ----------------------------------------------------------- SpecLookup
\* Trigger texts, location proofs and the sweep, with a membership lookup
\* that can fail.  The history is the last text: whether the lookup went through, the sender, the
\* message, the reply, and the number of requests received with it.
LookupHistory ==
    [lookup_ok |-> TRUE, user_id |-> "none", msg |-> "none", reply |-> "none",
     at |-> 0]

InitLookup == InitProgram /\ obs = LookupHistory

TextLookup(ok, u, m) ==
    /\ handle_text_lookup(ok, u, m)
    /\ UNCHANGED <<redisVars, mqttVars>>
    /\ obs' = [lookup_ok |-> ok, user_id |-> u, msg |-> m,
               reply |-> LookupReply(ok, u, m), at |-> nEvents']

NextLookup ==
    \/ \E ok \in BOOLEAN, u \in Users, m \in {"trigger", "other"} :
          TextLookup(ok, u, m)
    \/ \E t \in 0..nVerify, d \in Locations :
          verify_location_handler(t, d) /\ UNCHANGED <<redisVars, mqttVars, obs>>
    \/ Sweep /\ UNCHANGED <<redisVars, mqttVars, obs>>
    \/ Tick /\ UNCHANGED <<redisVars, mqttVars, obs>>
    \/ \E u \in Removable : RemoveUser(u) /\ UNCHANGED <<redisVars, mqttVars, obs>>

SpecLookup == InitLookup /\ [][NextLookup]_vars

\* ------------------- line_webhook.py, both values of CACHE_ENABLED, in step
\* The handlers of the top-level line_webhook.py, one request at a time, run
\* on the in-process maps (VERIFY_TOKENS, authorized_users, TOKENS) and, on
\* the same request, on a reachable Redis (redis).  The Redis run's own
\* TOKENS dict is written by generate_token and never read, and is left out.
\* A key set with SETEX is readable until its stored expiry (RedisGet).

\* lines 185-186 and 253-254: expiry and expiry >= time.time()
MemSession(user_id) ==
    authorized_users[user_id] # None /\ authorized_users[user_id] >= now

\* handle_text, CACHE_ENABLED false: the reply
MemTextReply(user_id, user_msg) ==
    IF user_msg # "trigger" THEN "none"
    ELSE IF user_id \notin ALLOWED_USERS THEN "not_registered"
    ELSE IF ~MemSession(user_id) THEN "challenge"
    ELSE "menu"

\* lines 189-190: a session found past its expiry is popped
MemSessionsAfterText(user_id, user_msg) ==
    IF /\ user_msg = "trigger"
       /\ user_id \in ALLOWED_USERS
       /\ authorized_users[user_id] # None
       /\ authorized_users[user_id] < now
    THEN [authorized_users EXCEPT ![user_id] = None]
    ELSE authorized_users

\* verify_location_handler, lines 104-123 and 128, CACHE_ENABLED false
MemVerifyAnswer(token, data) ==
    IF token = 0 \/ token \notin DOMAIN VERIFY_TOKENS THEN <<400, FALSE>>
    ELSE IF now > VERIFY_TOKENS[token].expiry THEN <<400, FALSE>>
    ELSE IF ~data.wellFormed THEN <<400, FALSE>>
    ELSE IF GoodLocation(data) THEN <<200, TRUE>>
    ELSE <<200, FALSE>>

\* the same lines with get_verify_token of cache_manager
CacheVerifyAnswer(token, data) ==
    IF token = 0 \/ RedisGet("verify_token", token) = NoRecord THEN <<400, FALSE>>
    ELSE IF now > RedisGet("verify_token", token).expiry THEN <<400, FALSE>>
    ELSE IF ~data.wellFormed THEN <<400, FALSE>>
    ELSE IF GoodLocation(data) THEN <<200, TRUE>>
    ELSE <<200, FALSE>>

\* handle_postback, CACHE_ENABLED false: clean_expired_tokens() of line 279
\* runs before TOKENS.get(token); "dispatch" is the call of
\* send_garage_command
MemPbReply(user_id, token) ==
    LET swept == clean_expired_tokens(TOKENS) IN
    IF ~MemSession(user_id) THEN "challenge"
    ELSE IF token \notin DOMAIN swept THEN "invalid"
    ELSE IF user_id # swept[token].user_id \/ now > swept[token].expiry
    THEN "stale"
    ELSE "dispatch"

\* handle_postback, CACHE_ENABLED true: get_action_token answers
\* (None, None, None) for a missing key and for time.time() > expiry
CachePbReply(user_id, token) ==
    LET found == RedisGet("action_token", token) IN
    IF ~cache_is_user_authorized(user_id) THEN "challenge"
    ELSE IF found = NoRecord \/ now > found.expiry THEN "invalid"
    ELSE IF user_id # found.user_id \/ now > found.expiry THEN "stale"
    ELSE "dispatch"

\* -------------------------------------------------------- SpecBackends
\* obs: the outcome of the last request on each backend.  The run goes on
\* as long as the two agree, so that the n-th token of one run is the n-th
\* token of the other.
BackendsHistory == [mem |-> "none", cache |-> "none"]

InitBackends == InitProgram /\ obs = BackendsHistory

BackendsFrame == UNCHANGED <<now, ALLOWED_USERS, rateVars, workerVars, redisUp,
                             body, mqttVars>>

BackendsText(u, m) ==
    LET a == MemTextReply(u, m)
        b == LegacyTextReply(u, m)
    IN  /\ obs.mem = obs.cache
        /\ Receive
        /\ obs' = [mem |-> a, cache |-> b]
        /\ nVerify' = IF "challenge" \in {a, b} THEN nVerify + 1 ELSE nVerify
        /\ nPairs' = IF "menu" \in {a, b} THEN nPairs + 1 ELSE nPairs
        /\ authorized_users' = MemSessionsAfterText(u, m)
        /\ VERIFY_TOKENS' = IF a = "challenge"
                            THEN store_verify_token(VERIFY_TOKENS, nVerify + 1, u)
                            ELSE VERIFY_TOKENS
        /\ TOKENS' = IF a = "menu" THEN generate_token(TOKENS, nPairs + 1, u)
                     ELSE TOKENS
        /\ redis' = CASE b = "challenge" ->
                           cache_store_verify_token(redis, nVerify + 1, u)
                      [] b = "menu" -> LegacyMenu(redis, nPairs + 1, u)
                      [] OTHER -> redis
        /\ BackendsFrame

BackendsProof(t, d) ==
    LET a == MemVerifyAnswer(t, d)
        b == CacheVerifyAnswer(t, d)
        mu == IF t \in DOMAIN VERIFY_TOKENS THEN VERIFY_TOKENS[t].user_id ELSE "none"
        cu == RedisGet("verify_token", t).user_id
        r == IF RedisGet("verify_token", t) # NoRecord
             THEN RedisDelete(redis, "verify_token", t) ELSE redis
    IN  /\ obs.mem = obs.cache
        /\ Receive
        /\ obs' = [mem |-> a, cache |-> b]
        /\ nPairs' = IF a[2] \/ b[2] THEN nPairs + 1 ELSE nPairs
        /\ VERIFY_TOKENS' = IF t \in DOMAIN VERIFY_TOKENS
                            THEN Del(VERIFY_TOKENS, t) ELSE VERIFY_TOKENS
        /\ authorized_users' =
              IF a[2] THEN [authorized_users EXCEPT ![mu] = now + LOCATION_TTL]
              ELSE authorized_users
        /\ TOKENS' = IF a[2] THEN generate_token(TOKENS, nPairs + 1, mu) ELSE TOKENS
        /\ redis' = IF b[2]
                    THEN LegacyMenu(cache_authorize_user(r, cu), nPairs + 1, cu)
                    ELSE r
        /\ UNCHANGED nVerify
        /\ BackendsFrame

BackendsPostback(u, t) ==
    LET a == MemPbReply(u, t)
        b == CachePbReply(u, t)
        swept == clean_expired_tokens(TOKENS)
    IN  /\ obs.mem = obs.cache
        /\ Receive
        /\ obs' = [mem |-> a, cache |-> b]
        /\ nVerify' = IF "challenge" \in {a, b} THEN nVerify + 1 ELSE nVerify
        /\ VERIFY_TOKENS' = IF a = "challenge"
                            THEN store_verify_token(VERIFY_TOKENS, nVerify + 1, u)
                            ELSE VERIFY_TOKENS
        /\ TOKENS' = IF a = "challenge" THEN TOKENS
                     ELSE IF t \in DOMAIN swept THEN Del(swept, t)
                     ELSE swept
        /\ redis' = IF b = "challenge"
                    THEN cache_store_verify_token(redis, nVerify + 1, u)
                    ELSE IF RedisGet("action_token", t) # NoRecord
                    THEN RedisDelete(redis, "action_token", t)
                    ELSE redis
        /\ UNCHANGED <<authorized_users, nPairs>>
        /\ BackendsFrame

NextBackends ==
    \/ \E u \in Users, m \in {"trigger", "other"} : BackendsText(u, m)
    \/ \E t \in 0..nVerify, d \in LegacyLocations : BackendsProof(t, d)
    \/ \E u \in Users, t \in 0..(2 * nPairs) : BackendsPostback(u, t)
    \/ Tick /\ UNCHANGED <<redisVars, mqttVars, obs>>
    \/ \E u \in Removable : RemoveUser(u) /\ UNCHANGED <<redisVars, mqttVars, obs>>

SpecBackends == InitBackends /\ [][NextBackends]_vars

\* ------------------------- core/line_webhook, the stores of lines 212-247
\* With CACHE_ENABLED true the verification tokens and the sessions go into
\* TOKENS, the dict of the action tokens, under the keys "verify:" + token and
\* "auth:" + user_id.  A key is a number here: an action token is its own
\* number, and the prefixed strings, which no token_urlsafe string equals,
\* are numbers above every token.
VerifyKey(token) == 100 + token
AuthKey(user_id) == 200 + (IF user_id = "u1" THEN 1 ELSE 2)

\* store_action_token with a parameter expiry, which token_manager.py 35 has
\* not
store_with_expiry_Accepted(tokens, key, user_id, action) ==
    [raised |-> FALSE,
     tokens |-> Put(tokens, key, [user_id |-> user_id, action |-> action,
                                  expiry |-> now + LOCATION_TTL])]

\* lines 215 and 234: store_action_token(key, user_id, action,
\* expiry=LOCATION_TTL) raises TypeError, the function takes no keyword
\* expiry; nothing is stored
store_with_expiry(tokens, key, user_id, action) ==
    [raised |-> TRUE, tokens |-> tokens]

\* lines 221-225
cached_get_verify_token(token) ==
    IF VerifyKey(token) \in DOMAIN TOKENS
    THEN [user_id |-> TOKENS[VerifyKey(token)].user_id,
          expiry |-> TOKENS[VerifyKey(token)].expiry]
    ELSE [user_id |-> "none", expiry |-> None]

\* lines 238-243
cached_is_user_authorized(user_id) ==
    /\ AuthKey(user_id) \in DOMAIN TOKENS
    /\ now < TOKENS[AuthKey(user_id)].expiry

\* lines 251-254: generate_token, then store_action_token for both tokens
cached_menu(tokens, n, user_id) ==
    store_action_token(
        store_action_token(generate_token(tokens, n, user_id),
                           OpenToken(n), user_id, "open"),
        CloseToken(n), user_id, "close")

\* handle_text: the reply; "system_error" is handle_system_error, reached
\* from the except clause of line 455
CachedTextReply(user_id, user_msg) ==
    IF user_msg # "trigger" THEN "none"
    ELSE IF user_id \notin ALLOWED_USERS THEN "not_registered"
    ELSE IF ~cached_is_user_authorized(user_id)
    THEN IF store_with_expiry(TOKENS, VerifyKey(nVerify + 1), user_id,
                              "verify").raised
         THEN "system_error" ELSE "challenge"
    ELSE "menu"

cached_handle_text(user_id, user_msg) ==
    /\ Receive
    /\ LET r == CachedTextReply(user_id, user_msg) IN
       CASE r \in {"challenge", "system_error"} ->
              /\ nVerify' = nVerify + 1
              /\ TOKENS' = store_with_expiry(TOKENS, VerifyKey(nVerify + 1),
                                             user_id, "verify").tokens
              /\ UNCHANGED nPairs
         [] r = "menu" ->
              /\ nPairs' = nPairs + 1
              /\ TOKENS' = cached_menu(TOKENS, nPairs + 1, user_id)
              /\ UNCHANGED nVerify
         [] OTHER -> UNCHANGED <<TOKENS, nPairs, nVerify>>
    /\ UNCHANGED <<now, ALLOWED_USERS, VERIFY_TOKENS, authorized_users, rateVars,
                   workerVars>>

\* verify_location_handler: <<status, ok>>; 500 when authorize_user raises
CachedVerifyAnswer(token, data) ==
    LET found == cached_get_verify_token(token) IN
    IF token = 0 \/ found.user_id = "none" THEN <<400, FALSE>>
    ELSE IF now > found.expiry THEN <<400, FALSE>>
    ELSE IF ~data.wellFormed THEN <<400, FALSE>>
    ELSE IF is_rate_limited(found.user_id)[1] THEN <<429, FALSE>>
    ELSE IF ~LocationAccepted(found.user_id, data.dist, data.acc)
    THEN <<200, FALSE>>
    ELSE IF store_with_expiry(TOKENS, AuthKey(found.user_id), found.user_id,
                              "authorize").raised
    THEN <<500, FALSE>>
    ELSE <<200, TRUE>>

cached_verify_location_handler(token, data) ==
    /\ Receive
    /\ LET user_id == cached_get_verify_token(token).user_id
           a == CachedVerifyAnswer(token, data)
       IN
       IF a[1] = 400
       THEN UNCHANGED <<TOKENS, nPairs, rateVars>>
       ELSE LET r == is_rate_limited(user_id) IN
            /\ rate_limit_store' = [rate_limit_store EXCEPT ![user_id] = r[2]]
            /\ global_rate_limit_store' = r[3]
            /\ IF a[2]
               THEN /\ nPairs' = nPairs + 1
                    /\ TOKENS' = cached_menu(
                          store_with_expiry(TOKENS, AuthKey(user_id), user_id,
                                            "authorize").tokens,
                          nPairs + 1, user_id)
               ELSE UNCHANGED <<TOKENS, nPairs>>
    /\ UNCHANGED <<now, ALLOWED_USERS, VERIFY_TOKENS, authorized_users, nVerify,
                   workerVars>>

\* handle_postback, one request at a time: "raised" when the challenge of
\* line 464 could not be stored, "dispatch" for send_garage_command(action)
CachedPbReply(user_id, data) ==
    IF ~cached_is_user_authorized(user_id)
    THEN IF store_with_expiry(TOKENS, VerifyKey(nVerify + 1), user_id,
                              "verify").raised
         THEN "raised" ELSE "challenge"
    ELSE IF data \notin DOMAIN TOKENS THEN "invalid"
    ELSE IF user_id # TOKENS[data].user_id \/ now > TOKENS[data].expiry
    THEN "stale"
    ELSE "dispatch"

cached_handle_postback(user_id, data) ==
    /\ Receive
    /\ LET r == CachedPbReply(user_id, data) IN
       CASE r \in {"challenge", "raised"} ->
              /\ nVerify' = nVerify + 1
              /\ TOKENS' = store_with_expiry(TOKENS, VerifyKey(nVerify + 1),
                                             user_id, "verify").tokens
         [] r = "invalid" -> UNCHANGED <<TOKENS, nVerify>>
         [] OTHER -> TOKENS' = Del(TOKENS, data) /\ UNCHANGED nVerify
    /\ UNCHANGED <<now, ALLOWED_USERS, VERIFY_TOKENS, authorized_users, nPairs,
                   rateVars, workerVars>>

\* ---------------------------------------------------------- SpecPurpose
\* A run of core/line_webhook with CACHE_ENABLED false or true, fixed at the
\* start (cache).  Proofs and postbacks carry any key some store holds.
\* issued: the verification tokens send_verification_message handed out;
\* minted: the tokens generate_token returned; proof: the token of the last
\* proof that was not answered 400; sent: the key and the action of the last
\* record passed to send_garage_command.
PurposeHistory(c) ==
    [cache |-> c, issued |-> {}, minted |-> {}, proof |-> 0,
     sent |-> [key |-> 0, action |-> "none"]]

InitPurpose == InitProgram /\ \E c \in BOOLEAN : obs = PurposeHistory(c)

PurposeUsers == {"u1"}

\* every number that is a key of VERIFY_TOKENS or of TOKENS
PurposeIds == (0..nVerify) \cup (0..(2 * nPairs))
PurposeKeys ==
    PurposeIds \cup {VerifyKey(t) : t \in 1..nVerify}
               \cup {AuthKey(u) : u \in PurposeUsers}

PurposeFrame == UNCHANGED <<redisVars, mqttVars>>

PurposeText(u, m) ==
    /\ IF obs.cache THEN cached_handle_text(u, m) ELSE handle_text(u, m)
    /\ PurposeFrame
    /\ obs' = [obs EXCEPT
                 !.issued = IF nVerify' # nVerify THEN @ \cup {nVerify'} ELSE @,
                 !.minted = IF nPairs' # nPairs
                            THEN @ \cup {OpenToken(nPairs'), CloseToken(nPairs')}
                            ELSE @]

PurposeProof(t, d) ==
    /\ IF obs.cache THEN cached_verify_location_handler(t, d)
       ELSE verify_location_handler(t, d)
    /\ PurposeFrame
    /\ LET a == IF obs.cache THEN CachedVerifyAnswer(t, d) ELSE VerifyAnswer(t, d)
       IN  obs' = [obs EXCEPT
                     !.proof = IF a[1] # 400 THEN t ELSE @,
                     !.minted = IF nPairs' # nPairs
                                THEN @ \cup {OpenToken(nPairs'), CloseToken(nPairs')}
                                ELSE @]

PurposeCachedPostback(u, k) ==
    /\ obs.cache
    /\ cached_handle_postback(u, k)
    /\ PurposeFrame
    /\ obs' = [obs EXCEPT
                 !.issued = IF nVerify' # nVerify THEN @ \cup {nVerify'} ELSE @,
                 !.sent = IF CachedPbReply(u, k) = "dispatch"
                          THEN [key |-> k, action |-> TOKENS[k].action]
                          ELSE @]

PurposePbStart(w, u, t) ==
    /\ ~obs.cache
    /\ PbStart(w, u, t)
    /\ PurposeFrame
    /\ obs' = [obs EXCEPT
                 !.issued = IF nVerify' # nVerify THEN @ \cup {nVerify'} ELSE @]

PurposePbPop(w) ==
    /\ PbPop(w)
    /\ PurposeFrame
    /\ obs' = [obs EXCEPT
                 !.sent = IF PbRejects(w) THEN @
                          ELSE [key |-> ev[w].data, action |-> rec[w].action]]

NextPurpose ==
    \/ \E u \in PurposeUsers, m \in {"trigger", "other"} : PurposeText(u, m)
    \/ \E t \in PurposeIds, d \in Locations : PurposeProof(t, d)
    \/ \E u \in PurposeUsers, k \in PurposeKeys : PurposeCachedPostback(u, k)
    \/ \E w \in Workers, u \in PurposeUsers, t \in PurposeIds :
          PurposePbStart(w, u, t)
    \/ \E w \in Workers : PbGet(w) /\ UNCHANGED <<redisVars, mqttVars, obs>>
    \/ \E w \in Workers : PurposePbPop(w)
    \/ Tick /\ UNCHANGED <<redisVars, mqttVars, obs>>

SpecPurpose == InitPurpose /\ [][NextPurpose]_vars

\* ------------------------------------- core/mqtt_handler, the network loops
\* A client of a call of send_garage_command is named by the attempt that
\* created it, 0 is None.  started: the attempt got as far as loop_start
\* (connect_async did not raise); connected: client.is_connected() as the
\* finally clause reads it.

\* line 86: create_mqtt_client raising leaves client as it was
ClientAfter(client, attempt, o) == IF o = "create" THEN client ELSE attempt

\* line 92
loop_start(o, started) == o \in {"ok", "publish"} \/ (o = "connect" /\ started)

\* a finally clause that stops the loop of every client it holds
finally_stops_Always(client, connected) == client # 0

\* lines 133-135: if client and client.is_connected()
finally_stops(client, connected) == client # 0 /\ connected

\* the loops of the call's clients that run when the attempt is over
LoopsAfter(loops, client, attempt, o, started, connected) ==
    LET running == loops \cup (IF loop_start(o, started) THEN {attempt} ELSE {}) IN
    IF finally_stops(ClientAfter(client, attempt, o), connected)
    THEN running \ {ClientAfter(client, attempt, o)}
    ELSE running

\* what the broker and the network allow: a published message was sent over
\* a connection; a client is connected only while its loop runs; line 103
\* raised because the client was not connected, it may connect later
ConnectionAllows(loops, client, attempt, o, started, connected) ==
    /\ started = loop_start(o, started)
    /\ o = "ok" => connected
    /\ connected =>
          ClientAfter(client, attempt, o)
              \in loops \cup (IF loop_start(o, started) THEN {attempt} ELSE {})

\* ------------------------------------------------------------ SpecLoops
\* SpecDispatch's protocol at one instant, with the clients of the call in
\* progress.
\* client: send_garage_command's variable; loops: the clients whose network
\* loop runs now that the last attempt is over; peak: the most loops that
\* ran at once during the last attempt; timeouts: the attempts of the call
\* that ended with CONNECT_TIMEOUT; stopped: the attempts of the call whose
\* finally clause called loop_stop.
LoopsHistory ==
    [client |-> 0, loops |-> {}, peak |-> 0, timeouts |-> 0, stopped |-> 0]

InitLoops == InitProgram /\ obs = LoopsHistory

PbPopLoops(w) ==
    /\ PbPopSend(w)
    /\ UNCHANGED redisVars
    /\ obs' = LoopsHistory

AttemptLoops(w, o, started, connected) ==
    LET first == mqtt[w].attempt = 1
        client == IF first THEN 0 ELSE obs.client
        loops == IF first THEN {} ELSE obs.loops
    IN  /\ pc[w] = "send"
        /\ ConnectionAllows(loops, client, mqtt[w].attempt, o, started, connected)
        /\ send_garage_command(w, o)
        /\ UNCHANGED redisVars
        /\ obs' = [client |-> ClientAfter(client, mqtt[w].attempt, o),
                   loops |-> LoopsAfter(loops, client, mqtt[w].attempt, o,
                                        started, connected),
                   peak |-> Cardinality(loops)
                              + IF loop_start(o, started) THEN 1 ELSE 0,
                   timeouts |-> (IF first THEN 0 ELSE obs.timeouts)
                              + IF o = "connect" /\ started /\ ~connected
                                THEN 1 ELSE 0,
                   stopped |-> (IF first THEN 0 ELSE obs.stopped)
                              + IF finally_stops(
                                      ClientAfter(client, mqtt[w].attempt, o),
                                      connected)
                                THEN 1 ELSE 0]

NextLoops ==
    \/ \E u \in DispatchUsers, m \in {"trigger", "other"} : TextDispatch(u, m)
    \/ \E t \in 0..nVerify, d \in LimitLocations : ProofDispatch(t, d)
    \/ \E w \in DispatchWorkers, u \in DispatchUsers, t \in 0..(2 * nPairs) :
          PbStart(w, u, t) /\ UNCHANGED <<redisVars, mqttVars, obs>>
    \/ \E w \in DispatchWorkers : PbGet(w) /\ UNCHANGED <<redisVars, mqttVars, obs>>
    \/ \E w \in DispatchWorkers : PbPopLoops(w)
    \/ \E w \in DispatchWorkers, o \in Outcomes, started, connected \in BOOLEAN :
          AttemptLoops(w, o, started, connected)

SpecLoops == InitLoops /\ [][NextLoops]_vars

\* --------------------------------- cleanup_loop, one dict operation a step
\* Min of a non-empty set of tokens: list(TOKENS.keys()) is in insertion
\* order, the order in which the tokens were drawn
FirstKey(keys) == CHOOSE k \in keys : \A x \in keys : k <= x

\* a loop body that skips a key no longer in the dict
visit_token_Guarded(tokens, token, current_time) ==
    IF token \notin DOMAIN tokens THEN [raised |-> FALSE, tokens |-> tokens]
    ELSE IF tokens[token].expiry <= current_time
    THEN [raised |-> FALSE, tokens |-> Del(tokens, token)]
    ELSE [raised |-> FALSE, tokens |-> tokens]

\* token_manager.py 52-54, one round of the for loop: TOKENS[token] raises
\* KeyError for a key that left the dict after line 50 took the list
visit_token(tokens, token, current_time) ==
    IF token \notin DOMAIN tokens THEN [raised |-> TRUE, tokens |-> tokens]
    ELSE IF tokens[token].expiry <= current_time
    THEN [raised |-> FALSE, tokens |-> Del(tokens, token)]
    ELSE [raised |-> FALSE, tokens |-> tokens]

\* ----------------------------------------------------------- SpecCleanup
\* The in-process protocol for one user with the timer thread of
\* schedule_token_cleanup beside the request thread.  timer: "waiting" for
\* the Timer of line 150 to fire, "running" inside clean_expired_tokens,
\* "dead" after an exception left cleanup_loop in a Timer thread before line
\* 150 (raised in the first run, which schedule_token_cleanup makes itself,
\* it leaves _cleanup_scheduled False and the next caller starts over);
\* current_time and expired_tokens: the locals of clean_expired_tokens; runs:
\* the runs that reached line 150 (counted up to two); raised: a run raised.
CleanupHistory ==
    [timer |-> "waiting", current_time |-> 0, expired_tokens |-> {}, runs |-> 0,
     raised |-> FALSE]

InitCleanup == InitProgram /\ obs = CleanupHistory

CleanupFrame ==
    UNCHANGED <<now, ALLOWED_USERS, VERIFY_TOKENS, authorized_users, nVerify,
                nPairs, rateVars, workerVars, nEvents, redisVars, mqttVars>>

\* the Timer fires: cleanup_loop, token_manager.py 49-50
CleanupBegin ==
    /\ obs.timer = "waiting"
    /\ obs' = [obs EXCEPT !.timer = "running", !.current_time = now,
                          !.expired_tokens = DOMAIN TOKENS]
    /\ UNCHANGED TOKENS
    /\ CleanupFrame

CleanupVisit ==
    /\ obs.timer = "running"
    /\ obs.expired_tokens # {}
    /\ LET token == FirstKey(obs.expired_tokens)
           r == visit_token(TOKENS, token, obs.current_time)
       IN  /\ TOKENS' = r.tokens
           /\ obs' = [obs EXCEPT
                        !.timer = IF ~r.raised THEN @
                                  ELSE IF obs.runs = 0 THEN "waiting" ELSE "dead",
                        !.expired_tokens = IF r.raised THEN {} ELSE @ \ {token},
                        !.raised = @ \/ r.raised]
    /\ CleanupFrame

\* line 150: threading.Timer(300, cleanup_loop).start()
CleanupEnd ==
    /\ obs.timer = "running"
    /\ obs.expired_tokens = {}
    /\ obs' = [obs EXCEPT !.timer = "waiting", !.runs = UpTo(@ + 1, 2)]
    /\ UNCHANGED TOKENS
    /\ CleanupFrame

CleanupStep == CleanupBegin \/ CleanupVisit \/ CleanupEnd

NextCleanup ==
    \/ \E u \in DispatchUsers : TextDispatch(u, "trigger")
    \/ \E t \in 0..nVerify, d \in LimitLocations : ProofDispatch(t, d)
    \/ \E w \in DispatchWorkers, u \in DispatchUsers, t \in 0..(2 * nPairs) :
          PbStart(w, u, t) /\ UNCHANGED <<redisVars, mqttVars, obs>>
    \/ \E w \in DispatchWorkers : PbGet(w) /\ UNCHANGED <<redisVars, mqttVars, obs>>
    \/ \E w \in DispatchWorkers : PbPop(w) /\ UNCHANGED <<redisVars, mqttVars, obs>>
    \/ CleanupStep
    \/ Tick /\ UNCHANGED <<redisVars, mqttVars, obs>>

\* the timer thread is scheduled: a Timer that was started fires, a running
\* clean_expired_tokens goes on
SpecCleanup == InitCleanup /\ [][NextCleanup]_vars /\ WF_vars(CleanupStep)

\* ------------------------------------ retry_api_call, handle_system_error
\* results[i]: the i-th call of func returns (TRUE) or raises an Exception.
\* The answer: the calls made, whether retry_api_call raised, and the call
\* whose result it returned or whose exception it raised, 0 for None.
RECURSIVE retry_from(_, _, _)
retry_from(results, attempt, max_attempts) ==
    IF ~(attempt < max_attempts)
    THEN [calls |-> attempt, raised |-> FALSE, value |-> 0]
    ELSE IF results[attempt + 1]
    THEN [calls |-> attempt + 1, raised |-> FALSE, value |-> attempt + 1]
    ELSE IF attempt = max_attempts - 1
    THEN [calls |-> attempt + 1, raised |-> TRUE, value |-> attempt + 1]
    ELSE retry_from(results, attempt + 1, max_attempts)

\* a loop over range(max_attempts - 1)
retry_api_call_OneFewer(results, max_attempts) ==
    retry_from(results, 0, max_attempts - 1)

\* lines 337-348
retry_api_call(results, max_attempts) == retry_from(results, 0, max_attempts)

\* the default of line 337
API_MAX_ATTEMPTS == 3

\* except Exception (lines 320 and 332): what a call of the LINE API raises
\* is an Exception
except_Exception(raised) == raised

\* lines 313-333: the calls of reply_message and of push_message, how the
\* user was told, whether an exception leaves handle_system_error
system_error_calls(replies, pushes) ==
    LET r == retry_api_call(replies, API_MAX_ATTEMPTS)
        p == retry_api_call(pushes, API_MAX_ATTEMPTS)
    IN  IF ~r.raised
        THEN [reply |-> r.calls, push |-> 0, told |-> "reply", raised |-> FALSE]
        ELSE [reply |-> r.calls, push |-> p.calls,
              told |-> IF p.raised THEN "none" ELSE "push",
              raised |-> p.raised /\ ~except_Exception(p.raised)]

\* ------------------------------------------------------------ SpecRetry
\* SpecNotify's protocol at one instant with handle_system_error taken call
\* by call.  replies, pushes: what the calls of reply_message and of
\* push_message do (pushes as at the start when none is made); m: a value of
\* max_attempts; retry: the answer of
\* retry_api_call(replies, m); err: system_error_calls(replies, pushes);
\* at: the request during which handle_system_error ran, 0 before.
CallResults == [1..API_MAX_ATTEMPTS -> BOOLEAN]

RetryHistory ==
    [replies |-> [i \in 1..API_MAX_ATTEMPTS |-> TRUE],
     pushes |-> [i \in 1..API_MAX_ATTEMPTS |-> TRUE],
     m |-> 1, retry |-> [calls |-> 0, raised |-> FALSE, value |-> 0],
     err |-> [reply |-> 0, push |-> 0, told |-> "no", raised |-> FALSE],
     at |-> 0]

InitRetry == InitProgram /\ obs = RetryHistory

SystemErrorRetry(w, replies, pushes, m) ==
    /\ handle_system_error(w, system_error_calls(replies, pushes).told)
    /\ UNCHANGED redisVars
    /\ system_error_calls(replies, pushes).push = 0 =>
          pushes = RetryHistory.pushes
    /\ obs' = [replies |-> replies, pushes |-> pushes, m |-> m,
               retry |-> retry_api_call(replies, m),
               err |-> system_error_calls(replies, pushes),
               at |-> nEvents]

NextRetry ==
    \/ \E u \in DispatchUsers : TextDispatch(u, "trigger")
    \/ \E t \in 0..nVerify, d \in LimitLocations : ProofDispatch(t, d)
    \/ \E w \in DispatchWorkers, u \in DispatchUsers, t \in 0..(2 * nPairs) :
          PbStart(w, u, t) /\ UNCHANGED <<redisVars, mqttVars, obs>>
    \/ \E w \in DispatchWorkers : PbGet(w) /\ UNCHANGED <<redisVars, mqttVars, obs>>
    \/ \E w \in DispatchWorkers : PbPopSend(w) /\ UNCHANGED <<redisVars, obs>>
    \/ \E w \in DispatchWorkers, o \in Outcomes :
          (DispatchGoesOn(w, o) \/ DispatchEnds(w, o)) /\ UNCHANGED <<redisVars, obs>>
    \/ \E w \in DispatchWorkers, delivered \in BOOLEAN :
          reply_message(w, delivered) /\ UNCHANGED <<redisVars, obs>>
    \/ \E w \in DispatchWorkers, replies, pushes \in CallResults,
          m \in 1..API_MAX_ATTEMPTS :
          SystemErrorRetry(w, replies, pushes, m)

SpecRetry == InitRetry /\ [][NextRetry]_vars

\* ------------------------------------------- middleware.py, rate_limit_by_ip
\* The decorator's parameters; app.py 372-374 passes max_requests=20 and
\* time_window=60.  The clock moves by TickStep, more than the window.
MaxIpRequests == 2
IP_TIME_WINDOW == 60

\* lines 140-141: timestamps.pop(0) while the first is older than the window
RECURSIVE drop_old(_, _)
drop_old(timestamps, current_time) ==
    IF timestamps # <<>> /\ Head(timestamps) < current_time - IP_TIME_WINDOW
    THEN drop_old(Tail(timestamps), current_time)
    ELSE timestamps

\* line 148
ip_limit_reached(counts, ip) == Len(counts[ip]) >= MaxIpRequests

\* -------------------------------------------------------------- SpecIp
\* Two request threads of one address inside decorated_function, one dict
\* operation a step.  ip_request_counts: the dict of line 128; th[w]: the
\* position and the locals of thread w (keys: what is left of
\* list(ip_request_counts.keys()), at most one key here); admitted[t]: the
\* requests with current_time t that reached the wrapped handler; rejected:
\* the requests answered 429 (counted up to one); recorded: a rejected
\* request changed the dict; failed: an exception left decorated_function.
Ips == {"ip1"}
IpTimes == {t * TickStep : t \in 0..MaxTicks}
IdleThread ==
    [pc |-> "idle", ip |-> "none", current_time |-> 0, keys |-> {},
     tracked_ip |-> "none"]

IpHistory ==
    [ip_request_counts |-> EmptyMap,
     th |-> [w \in Workers |-> IdleThread],
     admitted |-> [t \in IpTimes |-> 0],
     rejected |-> 0,
     failed |-> FALSE]

InitIp == InitProgram /\ obs = IpHistory

IpFrame ==
    UNCHANGED <<now, ALLOWED_USERS, storeVars, rateVars, workerVars, redisVars,
                mqttVars>>

\* lines 133-137: the request arrives
IpEnter(w, ip) ==
    /\ obs.th[w].pc = "idle"
    /\ Receive
    /\ obs' = [obs EXCEPT !.th[w] =
                 [pc |-> "for", ip |-> ip, current_time |-> now,
                  keys |-> DOMAIN obs.ip_request_counts, tracked_ip |-> "none"]]
    /\ IpFrame

\* lines 137-143, one round of the for loop up to the test of line 143: the
\* lookup raises KeyError when another thread deleted the entry
IpFor(w) ==
    LET t == obs.th[w] IN
    /\ t.pc = "for"
    /\ IF t.keys = {}
       THEN obs' = [obs EXCEPT !.th[w].pc = "check"]
       ELSE LET tracked_ip == CHOOSE k \in t.keys : TRUE IN
            IF tracked_ip \notin DOMAIN obs.ip_request_counts
            THEN obs' = [obs EXCEPT !.th[w] = IdleThread, !.failed = TRUE]
            ELSE LET timestamps ==
                        drop_old(obs.ip_request_counts[tracked_ip],
                                 t.current_time)
                 IN  obs' = [obs EXCEPT
                               !.ip_request_counts[tracked_ip] = timestamps,
                               !.th[w].keys = @ \ {tracked_ip},
                               !.th[w].tracked_ip = tracked_ip,
                               !.th[w].pc =
                                   IF timestamps = <<>> THEN "del" ELSE "for"]
    /\ UNCHANGED nEvents
    /\ IpFrame

\* line 144: del ip_request_counts[tracked_ip]
IpDel(w) ==
    LET t == obs.th[w] IN
    /\ t.pc = "del"
    /\ IF t.tracked_ip \notin DOMAIN obs.ip_request_counts
       THEN obs' = [obs EXCEPT !.th[w] = IdleThread, !.failed = TRUE]
       ELSE obs' = [obs EXCEPT !.ip_request_counts = Del(@, t.tracked_ip),
                               !.th[w].pc = "for"]
    /\ UNCHANGED nEvents
    /\ IpFrame

\* lines 147-150: the membership test and the length test, abort(429)
IpCheck(w) ==
    LET t == obs.th[w] IN
    /\ t.pc = "check"
    /\ IF t.ip \notin DOMAIN obs.ip_request_counts
       THEN obs' = [obs EXCEPT !.th[w].pc = "set"]
       ELSE IF ip_limit_reached(obs.ip_request_counts, t.ip)
       THEN obs' = [obs EXCEPT !.th[w] = IdleThread,
                               !.rejected = UpTo(@ + 1, 1)]
       ELSE obs' = [obs EXCEPT !.th[w].pc = "append"]
    /\ UNCHANGED nEvents
    /\ IpFrame

\* line 151: ip_request_counts[ip].append(current_time), then line 155
IpAppend(w) ==
    LET t == obs.th[w] IN
    /\ t.pc = "append"
    /\ IF t.ip \notin DOMAIN obs.ip_request_counts
       THEN obs' = [obs EXCEPT !.th[w] = IdleThread, !.failed = TRUE]
       ELSE obs' = [obs EXCEPT
                      !.ip_request_counts[t.ip] = Append(@, t.current_time),
                      !.admitted[t.current_time] = @ + 1,
                      !.th[w] = IdleThread]
    /\ UNCHANGED nEvents
    /\ IpFrame

\* line 153: ip_request_counts[ip] = [current_time], then line 155
IpSet(w) ==
    LET t == obs.th[w] IN
    /\ t.pc = "set"
    /\ obs' = [obs EXCEPT
                 !.ip_request_counts = Put(@, t.ip, <<t.current_time>>),
                 !.admitted[t.current_time] = @ + 1,
                 !.th[w] = IdleThread]
    /\ UNCHANGED nEvents
    /\ IpFrame

NextIp ==
    \/ \E w \in Workers, ip \in Ips : IpEnter(w, ip)
    \/ \E w \in Workers : IpFor(w)
    \/ \E w \in Workers : IpDel(w)
    \/ \E w \in Workers : IpCheck(w)
    \/ \E w \in Workers : IpAppend(w)
    \/ \E w \in Workers : IpSet(w)
    \/ Tick /\ UNCHANGED <<redisVars, mqttVars, obs>>

SpecIp == InitIp /\ [][NextIp]_vars

\* ---------------------------------------------------------- SpecRefused
\* The in-process protocol on one request thread, without the timer thread.
\* refused: the tokens in TOKENS that a postback refused at line 463
\* carried and that no handle_postback has popped since; intact: no refusal
\* changed TOKENS; lost: a postback with a session that carried a token of
\* refused did not find it; redeemed: a postback of the owner that carried
\* an unexpired token of refused was dispatched; last: the token of the last
\* postback that was dispatched, 0 before.
RefusedHistory ==
    [refused |-> {}, intact |-> TRUE, lost |-> FALSE, redeemed |-> FALSE,
     last |-> 0]

InitRefused == InitProgram /\ obs = RefusedHistory

PbStartRefused(w, u, t) ==
    /\ PbStart(w, u, t)
    /\ UNCHANGED <<redisVars, mqttVars>>
    /\ obs' = IF is_user_authorized(u) THEN obs
              ELSE [obs EXCEPT
                      !.refused = IF t \in DOMAIN TOKENS THEN @ \cup {t} ELSE @,
                      !.intact = @ /\ TOKENS' = TOKENS]

PbGetRefused(w) ==
    /\ PbGet(w)
    /\ UNCHANGED <<redisVars, mqttVars>>
    /\ obs' = [obs EXCEPT !.lost = @ \/ (ev[w].data \in obs.refused
                                          /\ ev[w].data \notin DOMAIN TOKENS)]

PbPopRefused(w) ==
    /\ PbPop(w)
    /\ UNCHANGED <<redisVars, mqttVars>>
    /\ obs' = [obs EXCEPT
                 !.refused = @ \ {ev[w].data},
                 !.redeemed = @ \/ (ev[w].data \in obs.refused /\ ~PbRejects(w)),
                 !.last = IF PbRejects(w) THEN @ ELSE ev[w].data]

NextRefused ==
    \/ \E u \in Users : TextDispatch(u, "trigger")
    \/ \E t \in 0..nVerify, d \in LimitLocations : ProofDispatch(t, d)
    \/ \E w \in DispatchWorkers, u \in Users, t \in 0..(2 * nPairs) :
          PbStartRefused(w, u, t)
    \/ \E w \in DispatchWorkers : PbGetRefused(w)
    \/ \E w \in DispatchWorkers : PbPopRefused(w)
    \/ Tick /\ UNCHANGED <<redisVars, mqttVars, obs>>

SpecRefused == InitRefused /\ [][NextRefused]_vars

\* ----------------------------------------------------------- SpecMember
\* The in-process protocol on one request thread with remove_user.  member:
\* the sender of the postback in progress, or of the last one, was in
\* get_allowed_users() when the postback arrived; sent: the last postback
\* that reached send_garage_command came from a user who was ("member") or
\* was not ("removed") in get_allowed_users() when it arrived, "none" before.
MemberHistory == [member |-> TRUE, sent |-> "none"]

InitMember == InitProgram /\ obs = MemberHistory

PbStartMember(w, u, t) ==
    /\ PbStart(w, u, t)
    /\ UNCHANGED <<redisVars, mqttVars>>
    /\ obs' = [obs EXCEPT !.member = u \in ALLOWED_USERS]

PbPopMember(w) ==
    /\ PbPop(w)
    /\ UNCHANGED <<redisVars, mqttVars>>
    /\ obs' = [obs EXCEPT !.sent = IF PbRejects(w) THEN @
                                   ELSE IF obs.member THEN "member" ELSE "removed"]

NextMember ==
    \/ \E u \in Users : TextDispatch(u, "trigger")
    \/ \E t \in 0..nVerify, d \in LimitLocations : ProofDispatch(t, d)
    \/ \E w \in DispatchWorkers, u \in Users, t \in 0..(2 * nPairs) :
          PbStartMember(w, u, t)
    \/ \E w \in DispatchWorkers : PbGet(w) /\ UNCHANGED <<redisVars, mqttVars, obs>>
    \/ \E w \in DispatchWorkers : PbPopMember(w)
    \/ \E u \in Removable : RemoveUser(u) /\ UNCHANGED <<redisVars, mqttVars, obs>>
    \/ Tick /\ UNCHANGED <<redisVars, mqttVars, obs>>

SpecMember == InitMember /\ [][NextMember]_vars

\* ------------------------------------------------------------ SpecDebug
\* Trigger texts and location proofs of one user, the debug user (u2) or
\* another (u1), fixed at the start (who), MaxDebugEvents requests in all.
\* Of the last proof: user_id, the owner of its token, "none" when no token
\* was found; expired, the token's expiry had passed; data, its body; limited,
\* is_rate_limited refused it; session, it stored a session and minted a
\* pair.
\* the requests of a run: a text and RATE_LIMIT_MAX + 1 proofs
MaxDebugEvents == 7

DebugLocations ==
    {Malformed} \cup
    [wellFormed : {TRUE}, dist : {MAX_DIST_M}, acc : {ACC_THRESHOLD, ACC_DEFAULT}]
    \cup [wellFormed : {TRUE}, dist : {MAX_DIST_M + 1}, acc : {ACC_THRESHOLD}]

DebugHistory(who) ==
    [who |-> who, user_id |-> "none", expired |-> FALSE, data |-> Malformed,
     limited |-> FALSE, session |-> FALSE]

InitDebug ==
    /\ now = 0
    /\ ALLOWED_USERS = Users
    /\ VERIFY_TOKENS = EmptyMap
    /\ authorized_users = [u \in Users |-> None]
    /\ TOKENS = EmptyMap
    /\ rate_limit_store = [u \in Users |-> <<>>]
    /\ global_rate_limit_store = <<>>
    /\ nVerify = 0
    /\ nPairs = 0
    /\ nEvents = MaxEvents - MaxDebugEvents
    /\ pc = [w \in Workers |-> "idle"]
    /\ ev = [w \in Workers |-> NoEvent]
    /\ rec = [w \in Workers |-> NoRecord]
    /\ redis = [verify_token |-> EmptyMap, action_token |-> EmptyMap,
                auth_user |-> EmptyMap]
    /\ redisUp = TRUE
    /\ body = [w \in Workers |-> Malformed]
    /\ mqtt = [w \in Workers |-> NoDispatch]
    /\ \E who \in Users : obs = DebugHistory(who)

ProofDebug(t, d) ==
    /\ verify_location_handler(t, d)
    /\ UNCHANGED <<redisVars, mqttVars>>
    /\ LET user_id == get_verify_token(t).user_id IN
       obs' = [who |-> obs.who,
               user_id |-> user_id,
               expired |-> t \in DOMAIN VERIFY_TOKENS
                            /\ now > VERIFY_TOKENS[t].expiry,
               data |-> d,
               limited |-> user_id # "none" /\ is_rate_limited(user_id)[1],
               session |-> nPairs' # nPairs]

NextDebug ==
    \/ TextDispatch(obs.who, "trigger")
    \/ \E t \in 0..nVerify, d \in DebugLocations : ProofDebug(t, d)
    \/ Tick /\ UNCHANGED <<redisVars, mqttVars, obs>>

SpecDebug == InitDebug /\ [][NextDebug]_vars

\* ------------------------------------------------------------------ claims

\* C1: of the handle_postback invocations that carry one action token, at
\* most one calls send_garage_command.
C1_OneDispatchPerToken ==
    \A t \in DOMAIN obs.sent : obs.sent[t] <= 1

\* C2: once verify_location_handler has looked a verification token up, every
\* later location proof with that token is answered 400 and stores no session
\* and no action token.
C2_VerifyTokenSingleUse ==
    [][\A t \in 1..nVerify, d \in Locations :
          (verify_location_handler(t, d) /\ t \in obs.lookedUp)
              => /\ VerifyAnswer(t, d)[1] = 400
                 /\ authorized_users' = authorized_users
                 /\ TOKENS' = TOKENS]_vars

\* C3: no verification token and no action token is minted for a user_id that
\* is not in get_allowed_users() when it is minted.
C3_MintOnlyForMembers ==
    [][/\ \A t \in (DOMAIN VERIFY_TOKENS') \ DOMAIN VERIFY_TOKENS :
             VERIFY_TOKENS'[t].user_id \in ALLOWED_USERS
       /\ \A t \in (DOMAIN TOKENS') \ DOMAIN TOKENS :
             TOKENS'[t].user_id \in ALLOWED_USERS]_vars

\* C4: handle_postback calls send_garage_command only when the sender is the
\* user the redeemed token was minted for.
C4_DispatchOnlyForOwner ==
    (obs.op = "postback" /\ obs.reply \in DispatchReplies)
        => obs.user_id = obs.owner

C4_Witness ==
    /\ obs.op = "postback"
    /\ obs.reply = "stale"
    /\ obs.owner \in Users
    /\ obs.owner # obs.user_id

\* C5: a location proof whose verification token has expired is answered 400
\* whatever the location, stores no session and mints no action token.
C5_ExpiredVerifyTokenRejected ==
    [][\A t \in 0..nVerify, d \in Locations :
          (ProofStep(t, d) /\ VerifyExpired(t))
              => /\ obs'.status = 400
                 /\ authorized_users' = authorized_users
                 /\ TOKENS' = TOKENS]_vars

C5_Witness ==
    /\ obs.op = "proof"
    /\ obs.expired
    /\ obs.good
    /\ obs.status = 400

\* C6: a handle_postback that starts after its action token has been read by a
\* handler that passed the session check, or after the token's expiry, does
\* not call send_garage_command, whether or not the sweep has run.
C6_ConsumedOrExpiredNeverDispatches ==
    [][\A w \in Workers : (PbPop(w) /\ obs.late[w]) => PbRejects(w)]_vars

\* C7: of the get_verify_token or get_action_token callers on one Redis key,
\* at most one is handed the stored record.
C7_OneReceiverPerKey ==
    \A space \in {"verify_token", "action_token"} :
        \A k \in DOMAIN obs.got[space] : obs.got[space][k] <= 1

\* C8: while Redis is unreachable the lookups answer not-found and
\* is_user_authorized answers False; a handler that makes a lookup ends there,
\* the location proof with status 400 and the postback without
\* send_garage_command; no session and no action token is stored.
NoNewKeys(space) ==
    \A k \in DOMAIN redis'[space] :
        k \in DOMAIN redis[space] /\ redis'[space][k] = redis[space][k]

C8_FailClosed ==
    [][~redisUp =>
          /\ \A u \in Users : ~cache_is_user_authorized(u)
          /\ \A t \in 0..nVerify : CacheGot("verify_token", t) = NoRecord
          /\ \A t \in 0..(2 * nPairs) : CacheGot("action_token", t) = NoRecord
          /\ \A w \in Workers :
                /\ CacheFound(w) = NoRecord
                /\ pc[w] = "idle" => pc'[w] = "idle"
                /\ (pc[w] \in {"vdel", "aget", "adel"} /\ pc'[w] # pc[w])
                      => pc'[w] = "idle"
                /\ legacy_verify_delete(w) => LegacyVerifyAnswer(w) = <<400, FALSE>>
                /\ legacy_postback_delete(w)
                      => LegacyPbReply(w, TRUE) \notin DispatchReplies
          /\ NoNewKeys("auth_user")
          /\ NoNewKeys("action_token")]_vars

C8_Witness == obs.refused /\ ~redisUp

\* C9: every action token is minted while its user has an unexpired session,
\* and handle_text answers with the menu only for a member whose session is valid.
C9_MintOnlyWithSession ==
    [][/\ \A t \in (DOMAIN TOKENS') \ DOMAIN TOKENS :
             /\ authorized_users'[TOKENS'[t].user_id] # None
             /\ now' < authorized_users'[TOKENS'[t].user_id]
       /\ \A u \in Users, m \in {"trigger", "other"} :
             (TextStep(u, m) /\ obs'.reply = "menu")
                 => (u \in ALLOWED_USERS /\ is_user_authorized(u))]_vars

C9_Witness ==
    /\ obs.op = "text"
    /\ obs.reply = "menu"
    /\ \E t \in DOMAIN TOKENS : TOKENS[t].user_id = obs.user_id

\* C10: a postback from a user without a valid session ends at the session
\* check: a verification token is stored for that user, the challenge is sent,
\* and the handler neither reads TOKENS nor dispatches.
C10_NoSessionNoDispatch ==
    [][\A w \in Workers, u \in Users, t \in 0..(2 * nPairs) :
          (PbStartStep(w, u, t) /\ ~is_user_authorized(u))
              => /\ pc'[w] = "idle"
                 /\ obs'.reply = "challenge"
                 /\ nVerify' = nVerify + 1
                 /\ VERIFY_TOKENS'[nVerify'].user_id = u
                 /\ TOKENS' = TOKENS]_vars

C10_Witness ==
    /\ obs.op = "postback"
    /\ obs.reply = "challenge"
    /\ obs.live

\* C11: a call of send_garage_command that returns (True, None) has made
\* exactly k <= MAX_RETRIES attempts, of which the first k-1 failed and the
\* k-th succeeded; a call that returns (False, error) has made exactly
\* MAX_RETRIES attempts, all of them failed, and its error is not empty; and
\* every call that has started returns.
C11_StopsAtFirstSuccess ==
    /\ [](obs.ret.kind = "return" =>
            IF obs.ret.ok
            THEN /\ obs.ret.err = <<>>
                 /\ obs.ret.attempts = obs.ret.fails + 1
                 /\ obs.ret.attempts <= MAX_RETRIES
            ELSE /\ obs.ret.err # <<>>
                 /\ obs.ret.attempts = MAX_RETRIES
                 /\ obs.ret.fails = MAX_RETRIES)
    /\ \A w \in DispatchWorkers, c \in 1..POSTBACK_ATTEMPTS :
          (pc[w] = "send" /\ mqtt[w].call = c)
             ~> ~(pc[w] = "send" /\ mqtt[w].call = c)

\* a call returned (True, None) on its last allowed attempt
C11_Witness ==
    /\ obs.ret.kind = "return"
    /\ obs.ret.ok
    /\ obs.ret.attempts = MAX_RETRIES
    /\ obs.ret.fails = MAX_RETRIES - 1

\* C12: between the redemption of one action token and the reply of
\* handle_postback, at most MAX_RETRIES connection attempts are made.
C12_AtMostMaxRetriesAttempts == obs.run.attempts <= MAX_RETRIES

\* C13: whichever stage of an attempt fails (client creation, connection,
\* publish), send_garage_command goes on to the next attempt or returns
\* (False, error) with a non-empty error; no exception leaves it.
C13_FailuresAreReturned ==
    /\ obs.ret.kind # "raise"
    /\ obs.run.reply # "error"
    /\ (obs.ret.kind = "return" /\ ~obs.ret.ok) => obs.ret.err # <<>>

\* a call returned (False, error) after client creation failed in its last
\* attempt
C13_Witness ==
    /\ obs.ret.kind = "return"
    /\ ~obs.ret.ok
    /\ obs.ret.err = ErrorString("create")

\* C18: the happy path.  A member without a session who sends the trigger
\* gets the challenge and a verify token of their own; a proof with that
\* token, unexpired, from within the geofence with accuracy <= ACC_THRESHOLD,
\* admitted by the rate limiter, is answered 200 ok=true, stores the session
\* and mints the menu's tokens for the member; the redemption of an open token
\* whose transport does not fail publishes the open payload exactly once and
\* is answered with the success confirmation.
C18_HappyPath ==
    [][/\ \A u \in DispatchUsers :
             (TextDispatch(u, "trigger") /\ u \in ALLOWED_USERS
                /\ ~is_user_authorized(u))
             => /\ TextReply(u, "trigger") = "challenge"
                /\ nVerify' = nVerify + 1
                /\ VERIFY_TOKENS'[nVerify'] =
                      [user_id |-> u, expiry |-> now + VERIFY_TTL]
       /\ \A t \in 1..nVerify, d \in Locations :
             (ProofDispatch(t, d) /\ t \in DOMAIN VERIFY_TOKENS /\ ~VerifyExpired(t)
                /\ GoodLocation(d) /\ ~is_rate_limited(VERIFY_TOKENS[t].user_id)[1])
             => /\ VerifyAnswer(t, d) = <<200, TRUE>>
                /\ authorized_users'[VERIFY_TOKENS[t].user_id] = now + LOCATION_TTL
                /\ nPairs' = nPairs + 1
                /\ TOKENS'[OpenToken(nPairs')] =
                      [user_id |-> VERIFY_TOKENS[t].user_id, action |-> "open",
                       expiry |-> now + TOKEN_TTL]
       /\ \A w \in DispatchWorkers :
             (AttemptDispatch(w, "ok") /\ obs.run.clean /\ rec[w].action = "open")
             => /\ obs'.run.publishes = 1
                /\ obs'.run.payload = "up"
                /\ obs'.run.reply = "opened"
                /\ pc'[w] = "idle"
      ]_vars

\* an open token was redeemed with one publish of the open payload
C18_Witness ==
    /\ obs.run.reply = "opened"
    /\ obs.run.clean
    /\ obs.run.publishes = 1
    /\ obs.run.payload = "up"
    /\ obs.run.attempts = 1

\* C19: when every call of send_garage_command made for a token returns
\* (False, error), handle_postback ends with the failure reply; the token is
\* then in TOKENS no more and never again; a postback that later carries the
\* same token, from a user with a session, is answered with the
\* invalid-operation reply and reaches neither the pop nor the dispatch.
C19_FailedTokenStaysConsumed ==
    /\ \A t \in obs.failed : t \notin DOMAIN TOKENS
    /\ obs.run.reply = "unavailable" => ~obs.run.clean /\ obs.run.attempts > 0
    /\ obs.after = "started" =>
          \A w \in DispatchWorkers : pc[w] \notin {"pop", "send"}

\* a postback with a token whose dispatch had failed was refused
C19_Witness ==
    /\ obs.after = "refused"
    /\ obs.failed # {}
    /\ obs.run.reply = "unavailable"

\* C14 as stated: a call of is_rate_limited for a user with RATE_LIMIT_MAX
\* admitted calls inside the window is denied, and a call for a user who had
\* RATE_LIMIT_MAX calls admitted, all of them older than the window by now, is
\* admitted.
C14_WindowThenResume_AsStated ==
    [][\A w \in Workers, u \in Users :
          RlEnterStep(w, u) =>
             /\ InWindow(obs.admitted[u], now) = RATE_LIMIT_MAX
                   => pc'[w] # "rl_append"
             /\ (/\ Len(obs.admitted[u]) >= RATE_LIMIT_MAX
                 /\ InWindow(obs.admitted[u], now) = 0)
                   => pc'[w] = "rl_append"
      ]_vars

\* C14: a call of is_rate_limited for a user with RATE_LIMIT_MAX admitted
\* calls inside the window is denied; a call for a user who had
\* RATE_LIMIT_MAX calls admitted, all of them older than the window by now, is
\* admitted, whatever calls were denied in between, provided fewer than
\* GLOBAL_RATE_LIMIT_MAX admitted calls of all users are inside the window.
C14_WindowThenResume ==
    [][\A w \in Workers, u \in Users :
          RlEnterStep(w, u) =>
             /\ InWindow(obs.admitted[u], now) = RATE_LIMIT_MAX
                   => pc'[w] # "rl_append"
             /\ (/\ Len(obs.admitted[u]) >= RATE_LIMIT_MAX
                 /\ InWindow(obs.admitted[u], now) = 0
                 /\ InWindow(AllAdmitted, now) < GLOBAL_RATE_LIMIT_MAX)
                   => pc'[w] = "rl_append"
      ]_vars

\* a user was admitted RATE_LIMIT_MAX times in one window, then denied in
\* that window, then admitted again once the window had passed
C14_Witness ==
    \E u \in Users :
        LET a == obs.admitted[u] IN
        /\ Len(a) = RATE_LIMIT_MAX + 1
        /\ a[RATE_LIMIT_MAX] - a[1] < RATE_LIMIT_WINDOW
        /\ obs.denied[u] # None
        /\ obs.denied[u] - a[1] < RATE_LIMIT_WINDOW
        /\ a[RATE_LIMIT_MAX + 1] - a[RATE_LIMIT_MAX] >= RATE_LIMIT_WINDOW

\* C15: a call is_rate_limited(u) is admitted if and only if fewer than
\* RATE_LIMIT_MAX of u's entries and fewer than GLOBAL_RATE_LIMIT_MAX of the
\* global entries lie inside the trailing window; an admitted call appends one
\* entry, its current_time, to u's list and one to the global list; a denied
\* call appends none: what it leaves in the lists was there before.
C15_AdmitIffBelowBoth ==
    [][/\ \A w \in Workers, u \in Users :
             RlEnterStep(w, u) =>
                /\ pc'[w] = "rl_append"
                      <=> /\ InWindow(rate_limit_store[u], now) < RATE_LIMIT_MAX
                          /\ InWindow(global_rate_limit_store, now)
                                < GLOBAL_RATE_LIMIT_MAX
                /\ Len(rate_limit_store'[u]) = InWindow(rate_limit_store[u], now)
                      \/ rate_limit_store'[u] = rate_limit_store[u]
                /\ Len(global_rate_limit_store')
                      = InWindow(global_rate_limit_store, now)
       /\ \A w \in Workers :
             RlAppendStep(w) =>
                /\ rate_limit_store'[ev[w].user_id]
                      = Append(rate_limit_store[ev[w].user_id], ev[w].data)
                /\ global_rate_limit_store'
                      = Append(global_rate_limit_store, ev[w].data)
                /\ \A k \in RateKeys \ {ev[w].user_id} :
                      rate_limit_store'[k] = rate_limit_store[k]
      ]_vars

\* a call was denied by the global limit alone, and another by the user's
\* limit alone
C15_Witness ==
    /\ Len(global_rate_limit_store) = GLOBAL_RATE_LIMIT_MAX
    /\ \E u \in Users : obs.denied[u] # None /\ obs.admitted[u] = <<>>
    /\ \E u \in Users : obs.denied[u] # None /\ Len(obs.admitted[u]) = RATE_LIMIT_MAX

\* C16: however the calls of the request threads interleave, no window of
\* RATE_LIMIT_WINDOW seconds holds more than RATE_LIMIT_MAX admitted calls of
\* one user, nor more than GLOBAL_RATE_LIMIT_MAX admitted calls in all.
C16_NoOverAdmission ==
    /\ \A u \in Users : \A i \in 1..Len(obs.admitted[u]) :
          InWindowFrom(obs.admitted[u], obs.admitted[u][i]) <= RATE_LIMIT_MAX
    /\ \A a \in {AllAdmitted[i] : i \in 1..Len(AllAdmitted)} :
          InWindowFrom(AllAdmitted, a) <= GLOBAL_RATE_LIMIT_MAX

\* two threads called for a user who had one admission left: one was
\* admitted, the other denied at the same reading of the clock
C16_Witness ==
    \E u \in Users :
        /\ Len(obs.admitted[u]) = RATE_LIMIT_MAX
        /\ obs.denied[u] = obs.admitted[u][RATE_LIMIT_MAX]
        /\ Len(global_rate_limit_store) = GLOBAL_RATE_LIMIT_MAX

C20_GeofenceBoundaries_AsStated ==
    [][\A t \in 1..nVerify, d \in ProofLocations :
          (obs'.op = "proof" /\ t \in DOMAIN VERIFY_TOKENS /\ ~VerifyExpired(t)
             /\ d.wellFormed /\ ~is_debug_user(VERIFY_TOKENS[t].user_id)
             /\ ProofStep(t, d))
          => (obs'.reply = "menu"
                <=> (d.dist <= MAX_DIST_M /\ d.acc <= ACC_THRESHOLD))]_vars

\* C20: a location proof of a user outside DEBUG_USER_IDS with a found,
\* unexpired token and well-formed coordinates, admitted by the rate limiter,
\* is accepted (200, ok=true, session stored) if and only if the distance is
\* at most MAX_DIST_KM and the accuracy at most 50; a proof the rate limiter
\* denies is answered 429 and not accepted.
C20_GeofenceBoundaries ==
    [][\A t \in 1..nVerify, d \in ProofLocations :
          (obs'.op = "proof" /\ t \in DOMAIN VERIFY_TOKENS /\ ~VerifyExpired(t)
             /\ d.wellFormed /\ ~is_debug_user(VERIFY_TOKENS[t].user_id)
             /\ ProofStep(t, d))
          => IF is_rate_limited(VERIFY_TOKENS[t].user_id)[1]
             THEN /\ obs'.status = 429
                  /\ obs'.reply = "none"
                  /\ authorized_users' = authorized_users
             ELSE /\ obs'.status = 200
                  /\ obs'.reply = "menu"
                        <=> (d.dist <= MAX_DIST_M /\ d.acc <= ACC_THRESHOLD)
                  /\ IF d.dist <= MAX_DIST_M /\ d.acc <= ACC_THRESHOLD
                     THEN authorized_users'[VERIFY_TOKENS[t].user_id]
                             = now + LOCATION_TTL
                     ELSE authorized_users' = authorized_users]_vars

\* a proof at distance MAX_DIST_KM with accuracy 50 was accepted after
\* proofs from outside had been rejected
C20_Witness ==
    /\ obs.op = "proof"
    /\ ~is_debug_user(obs.user_id)
    /\ obs.good
    /\ obs.status = 200
    /\ obs.reply = "menu"
    /\ Len(rate_limit_store[obs.user_id]) = RATE_LIMIT_MAX

C22_OneRejectionReply ==
    (obs.op = "postback" /\ obs.reply \notin DispatchReplies \cup {"challenge"})
       => obs.reply = "invalid"

\* C23: when send_garage_command has reported success and the confirmation
\* reply is not delivered on any retry, handle_postback makes no further
\* attempt to dispatch and the consumed token does not come back to TOKENS;
\* the handler only runs handle_system_error, which tries to tell the user
\* and changes no store, and ends.
C23_ReplyFailureRollsNothingBack ==
    /\ [](/\ obs.extra = 0
          /\ \A t \in obs.unconfirmed : t \notin DOMAIN TOKENS)
    /\ [][\A w \in DispatchWorkers :
            /\ (pc[w] = "reply_ok" /\ pc'[w] # "reply_ok")
                  => pc'[w] \in {"idle", "system_error"}
            /\ (pc[w] = "system_error" /\ pc'[w] # "system_error")
                  => /\ pc'[w] = "idle"
                     /\ UNCHANGED <<storeVars, rateVars, mqtt>>]_vars

\* the confirmation of a successful dispatch was lost, and so was the error
\* text: the handler ended with the token consumed
C23_Witness ==
    /\ obs.unconfirmed # {}
    /\ obs.told = "none"
    /\ \A w \in DispatchWorkers : pc[w] = "idle"

\* C24: what send_garage_command publishes is "up" when the action is "open"
\* and "down" when it is "close", never anything else, and every publish goes
\* to MQTT_TOPIC with QoS 1.
C24_TwoLiteralPayloads ==
    /\ [](obs.run.publishes > 0 =>
            /\ obs.run.payload \in {"up", "down"}
            /\ obs.run.topic = "garage/command"
            /\ obs.run.qos = 1)
    /\ [][\A w \in DispatchWorkers, o \in {"ok", "publish"} :
            AttemptDispatch(w, o) =>
               /\ rec[w].action = "open" => obs'.run.payload = "up"
               /\ rec[w].action = "close" => obs'.run.payload = "down"]_vars

\* a close token was redeemed: "down" was published
C24_Witness ==
    /\ obs.run.reply = "closed"
    /\ obs.run.publishes = 1
    /\ obs.run.payload = "down"
    /\ obs.run.topic = MQTT_TOPIC
    /\ obs.run.qos = PUBLISH_QOS

C26_TwoFreshTokensPerCall ==
    /\ [][obs'.minted # obs.minted
            => LET r == obs'.last
                   u == obs'.minted[r[1]]
               IN  /\ r[1] # r[2]
                   /\ {r[1], r[2]} \cap DOMAIN TOKENS = {}
                   /\ {r[1], r[2]} \cap DOMAIN obs.minted = {}
                   /\ DOMAIN TOKENS' = DOMAIN TOKENS \cup {r[1], r[2]}
                   /\ TOKENS'[r[1]] = [user_id |-> u, action |-> "open",
                                       expiry |-> now + TOKEN_TTL]
                   /\ TOKENS'[r[2]] = [user_id |-> u, action |-> "close",
                                       expiry |-> now + TOKEN_TTL]
                   /\ obs'.minted[r[2]] = u
                   /\ \A k \in DOMAIN TOKENS : TOKENS'[k] = TOKENS[k]]_vars
    /\ [](\A k \in DOMAIN TOKENS :
            /\ k \in DOMAIN obs.minted
            /\ TOKENS[k].user_id = obs.minted[k])

\* two users hold a pair each, a token of the first pair has been redeemed
\* and the other three are still bound to their users
C26_Witness ==
    /\ Cardinality(DOMAIN obs.minted) = 4
    /\ {obs.minted[k] : k \in DOMAIN obs.minted} = Users
    /\ Cardinality(DOMAIN TOKENS) = 3
    /\ obs.removed = {}
    /\ {TOKENS[k].user_id : k \in DOMAIN TOKENS} = Users

\* C27: webhook_handler answers 400 exactly when the signature of the event
\* body is invalid, and then neither handle_text nor handle_postback runs and
\* no store changes; every other request is answered 200, also when the
\* handler raised an exception.
C27_Only400OnInvalidSignature ==
    /\ [](obs.signature # "none"
            => /\ (obs.status = 400 <=> obs.signature = "invalid")
               /\ (obs.signature = "valid" => obs.status = 200)
               /\ (obs.status = 400 => obs.ran = "none" /\ ~obs.raised))
    /\ [][(obs'.status = 400 /\ obs'.at # obs.at)
            => UNCHANGED <<ALLOWED_USERS, storeVars, rateVars, workerVars>>]_vars

\* a postback whose session had lapsed raised out of handle_postback after
\* the verification token was stored, and the request was answered 200
C27_Witness ==
    /\ obs.signature = "valid"
    /\ obs.ran = "postback"
    /\ obs.raised
    /\ obs.status = 200
    /\ nVerify >= 1
    /\ nPairs >= 1

\* C28: a location proof with a missing or unknown token is answered 400, a
\* location proof with a valid token whose lat or lng is missing or is not a
\* number is answered 400, and in both cases the sessions, the action tokens
\* and the rate-limit lists are left as they were.
C28_BadRequestsChangeNothing ==
    /\ [](obs.token = "unknown" => obs.status = 400)
    /\ [](obs.token = "valid" /\ obs.kind # "number" => obs.status = 400)
    /\ [][(/\ obs'.at # obs.at
           /\ \/ obs'.token = "unknown"
              \/ obs'.token = "valid" /\ obs'.kind # "number")
            => UNCHANGED <<authorized_users, TOKENS, rateVars>>]_vars

\* C29: a location proof that is_rate_limited denies is answered 429, stores
\* no session, mints no action token and pushes no menu; and 429 is only
\* ever the answer to a location proof whose token was found and had not
\* expired.
C29_Limited429ChangesNothing ==
    /\ [][\A t \in 1..nVerify, d \in LimitLocations \ {Malformed} :
            (/\ obs'.op = "proof"
             /\ nEvents' # nEvents
             /\ t \in DOMAIN VERIFY_TOKENS
             /\ ~(now > VERIFY_TOKENS[t].expiry)
             /\ is_rate_limited(VERIFY_TOKENS[t].user_id)[1]
             /\ ProofStep(t, d))
            => /\ obs'.status = 429
               /\ obs'.reply = "none"
               /\ UNCHANGED <<authorized_users, TOKENS, nPairs>>]_vars
    /\ [][(obs'.status = 429 /\ nEvents' # nEvents)
            => /\ obs'.op = "proof"
               /\ obs'.reply = "none"
               /\ UNCHANGED <<authorized_users, TOKENS, nPairs>>]_vars
    /\ [](obs.status = 429
            => /\ obs.op = "proof"
               /\ obs.user_id # "none"
               /\ ~obs.expired)

\* a proof from inside the geofence was answered 429 while an older token of
\* the same user had expired, and the user has no session
C29_Witness ==
    /\ obs.op = "proof"
    /\ obs.status = 429
    /\ obs.good
    /\ obs.user_id = "u1"
    /\ authorized_users["u1"] = None
    /\ \E t \in DOMAIN VERIFY_TOKENS : now > VERIFY_TOKENS[t].expiry

\* C30: a trigger text that arrives while the membership lookup fails is
\* answered with the not-registered rejection, whoever sent it, and stores no
\* verification token and no action token.
C30_FailedLookupRejectsEveryone ==
    /\ [][(obs'.at # obs.at /\ ~obs'.lookup_ok /\ obs'.msg = "trigger")
            => /\ obs'.reply = "not_registered"
               /\ UNCHANGED <<VERIFY_TOKENS, nVerify, TOKENS, nPairs,
                              authorized_users>>]_vars
    /\ [](~obs.lookup_ok /\ obs.msg = "trigger" => obs.reply = "not_registered")

\* a member with a running session, who would have been sent the menu, and
\* was sent the not-registered rejection because the lookup failed
C30_Witness ==
    /\ ~obs.lookup_ok
    /\ obs.msg = "trigger"
    /\ obs.reply = "not_registered"
    /\ obs.user_id \in ALLOWED_USERS
    /\ is_user_authorized(obs.user_id)
    /\ obs.at = nEvents

\* C31: whatever requests and clock advances came before, processed one at a
\* time, a trigger text, a location proof or a postback has the same outcome
\* (status and ok, challenge or menu, dispatch or the rejection) on the
\* in-process maps as on the Redis-backed functions with Redis reachable.
C31_BackendsAgree == obs.mem = obs.cache

\* C32: every record handle_postback passes to send_garage_command has the
\* action "open" or "close" and sits under a key generate_token returned,
\* never under the key of a verification token or of a session; and every
\* token verify_location_handler accepts was handed out by
\* send_verification_message.
C32_TokensKeepTheirPurpose ==
    /\ obs.sent.action \in {"none", "open", "close"}
    /\ obs.sent.key = 0 \/ obs.sent.key \in obs.minted
    /\ obs.proof = 0 \/ obs.proof \in obs.issued

\* in-process: a postback that carried the number of a verification token
\* was dispatched by the action token of that number only, after a proof
\* with a number that is also an action token's had been refused
C32_Witness ==
    /\ ~obs.cache
    /\ obs.sent.action \in {"open", "close"}
    /\ obs.sent.key \in obs.issued
    /\ obs.proof \in obs.issued
    /\ nEvents = MaxEvents

\* C33: when an attempt of send_garage_command is over, no client of the call
\* has a running network loop, and during an attempt at most one has.
C33_LoopsStopped == obs.loops = {} /\ obs.peak <= 1

\* C34: under every interleaving with redemptions and mintings, no run of
\* clean_expired_tokens raises and every run is followed by the next one.
C34_SweepKeepsRunning == ~obs.raised /\ obs.timer # "dead"

\* C35: retry_api_call calls its function at most max_attempts times, returns
\* the result of the first call that succeeds and raises the exception of
\* the last call when max_attempts calls failed; handle_system_error calls
\* push_message only after reply_message failed on all its attempts, and no
\* exception leaves it.
C35_RetryThenPush ==
    LET ok == {i \in 1..obs.m : obs.replies[i]} IN
    obs.at # 0 =>
       /\ obs.retry.calls <= obs.m
       /\ ok # {} =>
             /\ ~obs.retry.raised
             /\ obs.retry.value \in ok
             /\ \A i \in ok : obs.retry.value <= i
             /\ obs.retry.calls = obs.retry.value
       /\ ok = {} =>
             /\ obs.retry.raised
             /\ obs.retry.value = obs.m
             /\ obs.retry.calls = obs.m
       /\ obs.err.push > 0 =>
             /\ obs.err.reply = API_MAX_ATTEMPTS
             /\ \A i \in 1..API_MAX_ATTEMPTS : ~obs.replies[i]
       /\ ~obs.err.raised

\* the reply failed three times, the push twice and then went through; with
\* max_attempts two, retry_api_call raised the exception of the second call
C35_Witness ==
    /\ obs.at # 0
    /\ obs.err = [reply |-> 3, push |-> 3, told |-> "push", raised |-> FALSE]
    /\ obs.pushes = <<FALSE, FALSE, TRUE>>
    /\ obs.m = 2
    /\ obs.retry = [calls |-> 2, raised |-> TRUE, value |-> 2]

\* C36: under every interleaving of requests from one address, at most
\* max_requests of them reach the wrapped handler within a window, and no
\* exception leaves the decorator's bookkeeping.
C36_IpLimitHolds ==
    /\ ~obs.failed
    /\ \A t \in IpTimes : obs.admitted[t] <= MaxIpRequests

\* C36, the limit alone
C36_AtMostMaxRequests == \A t \in IpTimes : obs.admitted[t] <= MaxIpRequests

\* C36, the exceptions alone
C36_BookkeepingNeverFails == ~obs.failed

\* C37: a postback refused for want of a valid session changes nothing in
\* TOKENS, and the token it carried, while unexpired, is found and
\* dispatched when its owner presents it with a session.
C37_RefusalKeepsToken == obs.intact /\ ~obs.lost

\* a token carried by a refused postback was dispatched for its owner later
C37_Witness == obs.redeemed /\ obs.intact

\* C38: the step of handle_postback that redeems a token takes exactly that
\* key out of TOKENS and leaves every other entry, the sessions and the
\* verification tokens as they were; a step that mints a pair adds its two
\* keys and leaves every existing entry as it was.
C38_OnlyTheRedeemedKeyGoes ==
    [][/\ \A w \in DispatchWorkers :
            pc[w] = "pop" /\ pc'[w] # "pop" =>
               /\ DOMAIN TOKENS' = DOMAIN TOKENS \ {ev[w].data}
               /\ \A k \in DOMAIN TOKENS' : TOKENS'[k] = TOKENS[k]
               /\ authorized_users' = authorized_users
               /\ VERIFY_TOKENS' = VERIFY_TOKENS
       /\ nPairs' # nPairs =>
               /\ DOMAIN TOKENS' =
                     DOMAIN TOKENS \cup {OpenToken(nPairs'), CloseToken(nPairs')}
               /\ \A k \in DOMAIN TOKENS : TOKENS'[k] = TOKENS[k]]_vars

\* u1 redeemed the open token of the second pair: its sibling and the pair
\* of u2, minted before, are in TOKENS, and both sessions run
C38_Witness ==
    /\ obs.last = OpenToken(2)
    /\ DOMAIN TOKENS = {OpenToken(1), CloseToken(1), CloseToken(2)}
    /\ TOKENS[OpenToken(1)].user_id = "u2"
    /\ TOKENS[CloseToken(2)].user_id = "u1"
    /\ is_user_authorized("u1") /\ is_user_authorized("u2")
    /\ VERIFY_TOKENS # EmptyMap

\* C39: send_garage_command is called only for a postback whose sender is in
\* get_allowed_users() when the postback arrives.
C39_DispatchOnlyForMembers == obs.sent # "removed"

====
